---- MODULE Spec2Model ----
(***************************************************************************)
(* Block processing pipeline of the knowledge-graph indexer:               *)
(*  - the indexer's edit handler (properties, values) and its storage,     *)
(*  - the content resolver (IPFS cache service) and its cursor,            *)
(*  - the indexer's preprocessing of a block (dedup fetch, proposals).     *)
(* Each part has its own specification over the shared variables.          *)
(***************************************************************************)
EXTENDS Integers, Sequences, FiniteSets, Bags, TLC

\* ---------------------------------------------------------------- bounds
\* longest op list of an edit handed to the edit handler
MaxOps == 3
\* most edits in the list edit_handler::run is called with
MaxEdits == 2
MaxFailedOps == 2
\* number of blocks the stream delivers
MaxBlocks == 2
\* longest edits_published list and longest edits list of a block
MaxEvents == 1
\* number of times a service process crashes and restarts
MaxCrashes == 1
\* retries of one cache read that are counted, further ones are not
MaxRetries == 2
\* longest created_proposals list of a block
MaxProposals == 1
\* number of times a block that was applied is applied again
MaxReplays == 1
\* events of the block in the specification of cache rows
MaxRowEvents == 2
\* longest edits_published list in the specification of published edits
MaxPublished == 2

\* ---------------------------------------------------------------- values
None == "None"

PropIds == {"P", "Q"}
EntityIds == {"E1", "E2"}
SpaceIds == {"S1", "S2"}

\* models::properties::DataType as used by the tests of the edit handler
DataTypes == {"String", "Number", "Boolean", "Time", "Point", "Relation"}

\* the data types the generated CreateProperty ops carry
OpDataTypes == {"String", "Number"}

\* the value strings the generated UpdateEntity ops carry
ValueStrings == {"1", "x"}

SeqsUpTo(S, n) == UNION {[1..k -> S] : k \in 0..n}

\* ------------------------------------------------------------- variables
VARIABLES
    properties,        \* storage table properties: id -> data_type | None
    properties_cache,  \* in-memory PropertiesCache: id -> data_type | None
    values,            \* storage table values: set of rows
    relations,         \* storage table relations: set of rows
    values_to_validate,         \* created_values handed to validate_created_values
    validated_created_values,   \* what validate_created_values returned for them
    cur_edit,          \* the PreprocessedEdit the edit handler holds, or NoEdit
    edit_outcome,      \* what became of cur_edit's transaction
    edit_error,        \* where that transaction failed, "none" if nowhere
    edit_begun,        \* storage.get_pool().begin() was called for cur_edit
    edit_issued,       \* the storage operations issued for cur_edit, in order
    run_state,         \* edit_handler::run: "idle", "running", "Ok", "Err"
    edits_left         \* edits of the block run has not yet taken

evars == <<properties, properties_cache, values, relations, values_to_validate,
           validated_created_values, cur_edit, edit_outcome,
           edit_error, edit_begun, edit_issued, run_state, edits_left>>

VARIABLES
    ipfs_cache,   \* table ipfs_cache, the rows in insertion order
    cursors,      \* row "ipfs_indexer" of table cursors, at most one
    chain_head,   \* number and content of the highest block delivered so far
    referenced,   \* URIs of the non-blocklisted events delivered so far
    r_pc,         \* resolver block loop: "start", "wait", "process"
    r_next,       \* number of the block the stream delivers next
    r_resumed,    \* the cursor the running process loaded when it started
    r_idx,        \* index of the next event of the block being processed
    tasks,        \* spawned process_edit_event tasks still running
    permits,      \* free permits of the semaphore
    crashes,      \* crashes so far
    put_log       \* outcome of the last cache write, as logged

rvars == <<ipfs_cache, cursors, chain_head, referenced, r_pc, r_next, r_resumed,
           r_idx, tasks, permits, crashes, put_log>>

VARIABLES
    pp_geo,          \* GeoOutput of the block being preprocessed
    pp_pc,           \* preprocess_block_scoped_data: "idle", "fetching", "done"
    pp_handles,      \* the spawned cache read tasks, in spawn order
    request_counts,  \* calls of CacheBackend::get per URI for this block
    cache_map,       \* the map fetch_deduplicated_cache_entries returns
    kg_data          \* the KgData handed to the handlers

pvars == <<pp_geo, pp_pc, pp_handles, request_counts, cache_map, kg_data>>

VARIABLES
    proposals,    \* table proposals
    q_block,      \* created and executed proposals of the block last applied
    q_number,     \* number of that block, 0 before the first
    q_runs,       \* times that block has been applied
    q_first,      \* table proposals as the first application left it
    q_outcome     \* result of the last proposal_handler::run

qvars == <<proposals, q_block, q_number, q_runs, q_first, q_outcome>>

\* preprocessing of the space and membership events of one block
VARIABLES
    sp_geo,            \* the space, plugin, editor and member events of the GeoOutput
    sp_pc,             \* "input" before, "done" after preprocessing
    sp_out             \* KgData.spaces, KgData.added_editors, KgData.added_members

svars == <<sp_geo, sp_pc, sp_out>>

\* root_handler::run and the space, membership and subspace handlers
VARIABLES
    tbl_spaces,        \* table spaces, as the set of its ids
    tbl_members,       \* table members, <<space_id, address>>
    tbl_editors,       \* table editors, <<space_id, address>>
    tbl_subspaces,     \* table subspaces, <<parent_space_id, child_space_id>>
    b_data,            \* the KgData root_handler::run was called with
    b_fail,            \* which handler transactions fail in this block
    b_task,            \* result of the space, membership, subspace tasks
    b_pc,              \* "idle", "running" (tasks spawned), "returned"
    b_result,          \* what root_handler::run returned
    b_cursor,          \* number of blocks whose cursor was persisted
    b_number,          \* number of blocks handed to root_handler::run
    b_expect,          \* the tables after the handlers run one after another
    b_order            \* the space, membership, subspace tasks in order of completion

bvars == <<tbl_spaces, tbl_members, tbl_editors, tbl_subspaces, b_data, b_fail,
           b_task, b_pc, b_result, b_cursor, b_number, b_expect, b_order>>

\* ------------------------------------------------------------ edit ops
\* wire::pb::grc20::Op payloads; an UpdateEntity carries one value and an
\* UnsetEntityValues one property (a longer list is the same as several ops
\* on the same entity, in list order)
CreateProperty(id, dt) ==
    [op |-> "CreateProperty", id |-> id, property |-> None, value |-> None, data_type |-> dt]
UpdateEntity(e, p, v) ==
    [op |-> "UpdateEntity", id |-> e, property |-> p, value |-> v, data_type |-> None]
UnsetEntityValues(e, p) ==
    [op |-> "UnsetEntityValues", id |-> e, property |-> p, value |-> None, data_type |-> None]

\* cache::PreprocessedEdit; the Option<Edit> is a sequence of at most one Edit
PreprocessedEdit(ops, errored, space) ==
    [cid |-> "cid", edit |-> IF errored THEN <<>> ELSE <<[ops |-> ops]>>,
     is_errored |-> errored, space_id |-> space]

\* the handler holds no edit
NoEdit == [cid |-> None, edit |-> <<>>, is_errored |-> FALSE, space_id |-> None]

\* Option::unwrap of the edit of a PreprocessedEdit
unwrap(pe) == pe.edit[1]

\* ------------------------------------------------- properties of an edit
\* PropertiesModel::map_edit_to_properties: the CreateProperty ops of the
\* edit squashed by id, the last occurrence of an id wins
RECURSIVE squash_properties(_, _)
squash_properties(ops, i) ==
    IF i > Len(ops) THEN <<>>
    ELSE IF /\ ops[i].op = "CreateProperty"
            /\ ~\E j \in (i+1)..Len(ops) :
                    ops[j].op = "CreateProperty" /\ ops[j].id = ops[i].id
         THEN <<[id |-> ops[i].id, data_type |-> ops[i].data_type]>>
                  \o squash_properties(ops, i + 1)
         ELSE squash_properties(ops, i + 1)

map_edit_to_properties_first_wins(edit) ==
    LET ops == edit.ops
        first(i) == /\ ops[i].op = "CreateProperty"
                    /\ ~\E j \in 1..(i-1) :
                          ops[j].op = "CreateProperty" /\ ops[j].id = ops[i].id
        F[i \in 0..Len(ops)] ==
            IF i = 0 THEN <<>>
            ELSE IF first(i)
                 THEN Append(F[i-1], [id |-> ops[i].id, data_type |-> ops[i].data_type])
                 ELSE F[i-1]
    IN  F[Len(ops)]

map_edit_to_properties(edit) == squash_properties(edit.ops, 1)

\* PropertiesCache::insert: the map entry of the id is set, replacing any
\* earlier entry
cache_insert(cache, id, dt) == [cache EXCEPT ![id] = dt]

\* edit_handler::run, the loop over the squashed properties that writes each
\* into the properties cache
cache_insert_all_skip(cache, props) == cache

RECURSIVE cache_insert_all(_, _)
cache_insert_all(cache, props) ==
    IF props = <<>> THEN cache
    ELSE cache_insert_all(cache_insert(cache, Head(props).id, Head(props).data_type),
                          Tail(props))

\* StorageBackend::insert_properties: a row is inserted for an id only when
\* the table has none (no-overwrite insert)
RECURSIVE insert_properties_overwrite(_, _)
insert_properties_overwrite(table, props) ==
    IF props = <<>> THEN table
    ELSE insert_properties_overwrite(
             [table EXCEPT ![Head(props).id] = Head(props).data_type], Tail(props))

RECURSIVE insert_properties(_, _)
insert_properties(table, props) ==
    IF props = <<>> THEN table
    ELSE insert_properties(
             IF table[Head(props).id] = None
             THEN [table EXCEPT ![Head(props).id] = Head(props).data_type]
             ELSE table,
             Tail(props))

\* ----------------------------------------------------- values of an edit
\* validation of a value string against a data type: the strings that parse
\* as a finite double, as the literals 0/1, as an RFC-3339 time, as "x,y"
NumberStrings == {"1"}
BooleanStrings == {"0", "1"}
TimeStrings == {}
PointStrings == {}

NoFields == [string |-> None, number |-> None, boolean |-> None,
             time |-> None, point |-> None]

\* ValuesModel: the typed column a value string populates, by the data type
\* the properties cache has for its property (None: the id is not cached)
populate_value_fields_by_datatype(value, dt) ==
    CASE dt = "String" -> [NoFields EXCEPT !.string = value]
      [] dt = "Number" /\ value \in NumberStrings -> [NoFields EXCEPT !.number = value]
      [] dt = "Boolean" /\ value \in BooleanStrings -> [NoFields EXCEPT !.boolean = value]
      [] dt = "Time" /\ value \in TimeStrings -> [NoFields EXCEPT !.time = value]
      [] dt = "Point" /\ value \in PointStrings -> [NoFields EXCEPT !.point = value]
      [] OTHER -> NoFields

\* the id of a value row, a hash of (entity_id, property_id, space_id)
derive_value_id(entity_id, property_id, space_id) == <<entity_id, property_id, space_id>>

\* a value record whose id also hashes its content
ValueOp_content_id(change_type, entity_id, property_id, space_id, fields) ==
    [id |-> <<derive_value_id(entity_id, property_id, space_id), fields>>,
     change_type |-> change_type, entity_id |-> entity_id,
     property_id |-> property_id, space_id |-> space_id,
     string |-> fields.string, number |-> fields.number, boolean |-> fields.boolean,
     time |-> fields.time, point |-> fields.point]

ValueOp(change_type, entity_id, property_id, space_id, fields) ==
    [id |-> derive_value_id(entity_id, property_id, space_id),
     change_type |-> change_type, entity_id |-> entity_id,
     property_id |-> property_id, space_id |-> space_id,
     string |-> fields.string, number |-> fields.number, boolean |-> fields.boolean,
     time |-> fields.time, point |-> fields.point]

\* a mapping that looks up a property only among those created before the
\* value op in the op list
RECURSIVE created_values_from_in_op_order(_, _, _, _)
created_values_from_in_op_order(ops, i, space_id, cache) ==
    IF i > Len(ops) THEN <<>>
    ELSE IF ops[i].op = "UpdateEntity"
         THEN <<ValueOp("SET", ops[i].id, ops[i].property, space_id,
                    populate_value_fields_by_datatype(ops[i].value,
                        IF \E j \in (i+1)..Len(ops) :
                               ops[j].op = "CreateProperty" /\ ops[j].id = ops[i].property
                        THEN None ELSE cache[ops[i].property]))>>
                  \o created_values_from_in_op_order(ops, i + 1, space_id, cache)
         ELSE created_values_from_in_op_order(ops, i + 1, space_id, cache)

\* ValuesModel::map_edit_to_values: the UpdateEntity ops as SET records and
\* the UnsetEntityValues ops as UNSET records, each list in op order
RECURSIVE created_values_from(_, _, _, _)
created_values_from(ops, i, space_id, cache) ==
    IF i > Len(ops) THEN <<>>
    ELSE IF ops[i].op = "UpdateEntity"
         THEN <<ValueOp("SET", ops[i].id, ops[i].property, space_id,
                    populate_value_fields_by_datatype(ops[i].value, cache[ops[i].property]))>>
                  \o created_values_from(ops, i + 1, space_id, cache)
         ELSE created_values_from(ops, i + 1, space_id, cache)

RECURSIVE deleted_values_from(_, _, _)
deleted_values_from(ops, i, space_id) ==
    IF i > Len(ops) THEN <<>>
    ELSE IF ops[i].op = "UnsetEntityValues"
         THEN <<ValueOp("UNSET", ops[i].id, ops[i].property, space_id, NoFields)>>
                  \o deleted_values_from(ops, i + 1, space_id)
         ELSE deleted_values_from(ops, i + 1, space_id)

map_edit_to_values(edit, space_id, cache) ==
    [created |-> created_values_from(edit.ops, 1, space_id, cache),
     deleted |-> deleted_values_from(edit.ops, 1, space_id)]

\* edit_handler::validate_created_values: the values with at least one typed
\* field populated
HasTypedField(value) ==
    \/ value.string # None
    \/ value.number # None
    \/ value.boolean # None
    \/ value.time # None
    \/ value.point # None

\* a validation that lets every value through
validate_created_values_none(created_values) == created_values

\* a validation that also drops the values whose property the cache does not
\* know
HasTypedFieldOfKnownProperty(value) ==
    HasTypedField(value) /\ properties_cache[value.property_id] # None

validate_created_values_known_only(created_values) ==
    SelectSeq(created_values, HasTypedFieldOfKnownProperty)

validate_created_values(created_values) == SelectSeq(created_values, HasTypedField)

ValueRow(v) ==
    [id |-> v.id, entity_id |-> v.entity_id, property_id |-> v.property_id,
     space_id |-> v.space_id, string |-> v.string, number |-> v.number,
     boolean |-> v.boolean, time |-> v.time, point |-> v.point]

\* StorageBackend::insert_values: batch insert keyed by the row id, a row
\* with the same id is replaced
RECURSIVE insert_values(_, _)
insert_values(table, created) ==
    IF created = <<>> THEN table
    ELSE insert_values({r \in table : r.id # Head(created).id} \cup {ValueRow(Head(created))},
                       Tail(created))

\* StorageBackend::delete_values: batch delete by (entity_id, property_id)
\* within the given space
delete_values(table, deleted, space_id) ==
    {r \in table :
        ~\E i \in 1..Len(deleted) :
            /\ deleted[i].entity_id = r.entity_id
            /\ deleted[i].property_id = r.property_id
            /\ r.space_id = space_id}

\* ------------------------------------------------- relations of an edit
RelationIds == {"R1", "R2"}

\* the positions and the verified flags the generated relation ops carry
Positions == {"a"}
VerifiedFlags == {"true"}

\* a field of an UpdateRelation: a value (the field is set), Unset (the
\* field is cleared) or None (the field is left alone)
Unset == "Unset"

\* wire::pb::grc20 relation payloads: Relation, RelationUpdate and the id of
\* DeleteRelation
CreateRelation(id, entity, position, verified) ==
    [op |-> "CreateRelation", id |-> id, entity |-> entity,
     position |-> position, verified |-> verified]
UpdateRelation(id, position, verified) ==
    [op |-> "UpdateRelation", id |-> id, position |-> position, verified |-> verified]
DeleteRelation(id) ==
    [op |-> "DeleteRelation", id |-> id]

RelationRow(id, entity, space_id, position, verified) ==
    [id |-> id, entity_id |-> entity, space_id |-> space_id,
     position |-> position, verified |-> verified]

IsSet(field) == field # None /\ field # Unset

\* RelationsModel::map_edit_to_relations: the relation ops of the edit in op
\* order, as four lists: created rows, updates with the fields to set,
\* updates with the fields to clear, ids to delete
RECURSIVE relations_from(_, _, _)
relations_from(ops, i, space_id) ==
    IF i > Len(ops)
    THEN [created |-> <<>>, updated |-> <<>>, unset |-> <<>>, deleted |-> <<>>]
    ELSE LET rest == relations_from(ops, i + 1, space_id)
             o == ops[i]
         IN  CASE o.op = "CreateRelation" ->
                    [rest EXCEPT !.created =
                        <<RelationRow(o.id, o.entity, space_id, o.position, o.verified)>> \o @]
               [] o.op = "UpdateRelation" ->
                    [rest EXCEPT
                        !.updated = IF IsSet(o.position) \/ IsSet(o.verified)
                                    THEN <<[id |-> o.id, space_id |-> space_id,
                                            position |-> IF IsSet(o.position) THEN o.position ELSE None,
                                            verified |-> IF IsSet(o.verified) THEN o.verified ELSE None]>> \o @
                                    ELSE @,
                        !.unset = IF o.position = Unset \/ o.verified = Unset
                                  THEN <<[id |-> o.id, space_id |-> space_id,
                                          position |-> o.position = Unset,
                                          verified |-> o.verified = Unset]>> \o @
                                  ELSE @]
               [] o.op = "DeleteRelation" ->
                    [rest EXCEPT !.deleted = <<o.id>> \o @]
               [] OTHER -> rest

map_edit_to_relations(edit, space_id) == relations_from(edit.ops, 1, space_id)

\* StorageBackend::insert_relations: batch insert keyed by the row id, a row
\* with the same id is replaced
RECURSIVE insert_relations(_, _)
insert_relations(table, created) ==
    IF created = <<>> THEN table
    ELSE insert_relations({r \in table : r.id # Head(created).id} \cup {Head(created)},
                          Tail(created))

\* StorageBackend::update_relations: the fields an update carries are
\* written to the row of its id in its space, the updates in list order
RECURSIVE update_relations(_, _)
update_relations(table, updated) ==
    IF updated = <<>> THEN table
    ELSE LET u == Head(updated)
             upd(r) == IF r.id = u.id /\ r.space_id = u.space_id
                       THEN [r EXCEPT !.position = IF u.position # None THEN u.position ELSE @,
                                      !.verified = IF u.verified # None THEN u.verified ELSE @]
                       ELSE r
         IN  update_relations({upd(r) : r \in table}, Tail(updated))

\* StorageBackend::unset_relation_fields: the fields an unset names are
\* cleared in the row of its id in its space
RECURSIVE unset_relation_fields(_, _)
unset_relation_fields(table, unset) ==
    IF unset = <<>> THEN table
    ELSE LET u == Head(unset)
             clr(r) == IF r.id = u.id /\ r.space_id = u.space_id
                       THEN [r EXCEPT !.position = IF u.position THEN None ELSE @,
                                      !.verified = IF u.verified THEN None ELSE @]
                       ELSE r
         IN  unset_relation_fields({clr(r) : r \in table}, Tail(unset))

\* StorageBackend::delete_relations: batch delete by id within the given
\* space
delete_relations(table, deleted_ids, space_id) ==
    {r \in table :
        ~(r.space_id = space_id /\ \E i \in 1..Len(deleted_ids) : deleted_ids[i] = r.id)}

\* the relation statements of an edit with the deletions issued first
write_relations_delete_first(table, edit, space_id) ==
    LET m == map_edit_to_relations(edit, space_id)
        d == delete_relations(table, m.deleted, space_id)
        a == insert_relations(d, m.created)
        b == update_relations(a, m.updated)
    IN  unset_relation_fields(b, m.unset)

\* edit_handler::run, the relation statements of an edit: insert, update,
\* unset, delete
write_relations(table, edit, space_id) ==
    LET m == map_edit_to_relations(edit, space_id)
        a == insert_relations(table, m.created)
        b == update_relations(a, m.updated)
        c == unset_relation_fields(b, m.unset)
    IN  delete_relations(c, m.deleted, space_id)

\* the relations table after the transaction of one PreprocessedEdit: the
\* statements take effect if the edit is not errored, no statement of the
\* transaction failed and the commit succeeded
relations_transaction(table, pe, fail) ==
    IF pe.is_errored \/ fail # "none" THEN table
    ELSE write_relations(table, unwrap(pe), pe.space_id)

\* --------------------------------------------------------- edit handler
\* the storage operations of an edit's transaction, in the order run
\* issues them
StorageSteps ==
    <<"insert_properties", "insert_entities", "insert_values", "delete_values",
      "insert_relations", "update_relations", "unset_relation_fields",
      "delete_relations">>

\* where the transaction of an edit can fail: nowhere, at begin, at one of
\* its storage operations, at commit, by a panic of the task
FailPoints ==
    {"none", "begin", "commit", "panic"}
        \cup {StorageSteps[i] : i \in 1..Len(StorageSteps)}

\* a storage operation whose error leaves the transaction usable: its own
\* writes are missing, the others stay
tx_statement_no_abort(tx, fail, steps, after) == IF fail \in steps THEN tx ELSE after

\* a storage operation inside a PostgreSQL transaction: an error aborts the
\* transaction, every later statement of it is rejected
tx_statement(tx, fail, steps, after) ==
    IF tx.aborted THEN tx
    ELSE IF fail \in steps THEN [tx EXCEPT !.aborted = TRUE]
    ELSE after

\* tx.commit(): an aborted transaction and a failed commit leave the
\* tables as they were
tx_commit(tx, fail, before) ==
    IF tx.aborted \/ fail = "commit" THEN before ELSE tx

\* sqlx::Transaction: the writes of a transaction reach the tables only when
\* every statement and the commit succeed
transaction(fail, before, after) == IF fail = "none" THEN after ELSE before

\* edit_handler::run, the value statements of an edit: the validated SET
\* values are inserted, then the UNSET values are deleted
write_values_delete_first(tx, fail, edit, space_id, cache) ==
    LET m == map_edit_to_values(edit, space_id, cache)
        d == tx_statement(tx, fail, {"delete_values"},
                 [tx EXCEPT !.values = delete_values(tx.values, m.deleted, space_id)])
    IN  tx_statement(d, fail, {"insert_values"},
            [d EXCEPT !.values = insert_values(d.values, validate_created_values(m.created))])

write_values(tx, fail, edit, space_id, cache) ==
    LET m == map_edit_to_values(edit, space_id, cache)
        a == tx_statement(tx, fail, {"insert_values"},
                 [tx EXCEPT !.values = insert_values(tx.values, validate_created_values(m.created))])
    IN  tx_statement(a, fail, {"delete_values"},
            [a EXCEPT !.values = delete_values(a.values, m.deleted, space_id)])

\* storage operations issued in the order of the ops of the edit, one per op
issued_operations_by_op_order(pe, fail) ==
    IF fail = "begin" \/ fail = "panic" \/ pe.is_errored THEN <<>>
    ELSE [i \in 1..Len(unwrap(pe).ops) |->
             CASE unwrap(pe).ops[i].op = "CreateProperty" -> "insert_properties"
               [] unwrap(pe).ops[i].op = "UpdateEntity" -> "insert_values"
               [] OTHER -> "delete_values"]

\* edit_handler::run, the storage operations the task of an edit issues: none
\* when begin fails, when the edit is errored, or when the task panics while
\* it maps the edit, before its first storage operation; otherwise all of
\* them in the order of the code, since the error of an operation is printed
\* and the next operation is issued
issued_operations(pe, fail) ==
    IF fail = "begin" \/ fail = "panic" \/ pe.is_errored THEN <<>>
    ELSE StorageSteps

\* edit_handler::run, the created values of map_edit_to_values that go to
\* validate_created_values; an errored edit and a task that failed at begin
\* or panicked have none
created_values_of(pe, fail, cache) ==
    IF fail = "begin" \/ fail = "panic" \/ pe.is_errored THEN <<>>
    ELSE map_edit_to_values(unwrap(pe), pe.space_id, cache).created

InitEditVars ==
    /\ cur_edit = NoEdit
    /\ edit_outcome = None
    /\ edit_error = None
    /\ edit_begun = FALSE
    /\ edit_issued = <<>>
    /\ relations = {}
    /\ values_to_validate = <<>>
    /\ validated_created_values = <<>>
    /\ run_state = "idle"
    /\ edits_left = 0

\* edit_handler::run is called with the n edits of a block
edit_handler_call(n) ==
    /\ run_state # "running"
    /\ run_state' = "running"
    /\ edits_left' = n
    /\ edit_outcome' = None
    /\ edit_error' = None
    /\ edit_begun' = FALSE
    /\ edit_issued' = <<>>
    /\ values_to_validate' = <<>>
    /\ validated_created_values' = <<>>
    /\ UNCHANGED <<properties, properties_cache, values, relations, cur_edit>>
    /\ UNCHANGED <<rvars, pvars, qvars, svars, bvars>>

\* the body of one iteration of the loop of edit_handler::run: the
\* transaction of one PreprocessedEdit on the given tables and cache. The
\* transaction is begun before the task looks at is_errored. An
\* error of a storage operation is printed and the next operation is issued;
\* a panic of the task drops the transaction
edit_transaction(tbl_properties, cache0, tbl_values, pe, fail) ==
    LET same == [properties |-> tbl_properties, properties_cache |-> cache0,
                 values |-> tbl_values]
    IN  IF fail = "begin"
        THEN same @@ [outcome |-> "begin_failed", error |-> fail, begun |-> TRUE]
        ELSE IF pe.is_errored
        THEN same @@ [outcome |-> IF fail = "commit" THEN "rolled_back" ELSE "skipped",
                      error |-> IF fail = "commit" THEN fail ELSE "none",
                      begun |-> TRUE]
        ELSE LET props == map_edit_to_properties(unwrap(pe))
                 cache == cache_insert_all(cache0, props)
                 t0 == [aborted |-> FALSE, properties |-> tbl_properties,
                        values |-> tbl_values]
                 t1 == tx_statement(t0, fail, {"insert_properties"},
                           [t0 EXCEPT !.properties = insert_properties(t0.properties, props)])
                 t2 == tx_statement(t1, fail, {"insert_entities"}, t1)
                 t3 == write_values(t2, fail, unwrap(pe), pe.space_id, cache)
                 t4 == tx_statement(t3, fail,
                           {"insert_relations", "update_relations",
                            "unset_relation_fields", "delete_relations"}, t3)
                 done == IF fail = "panic" THEN t0 ELSE tx_commit(t4, fail, t0)
             IN  [properties |-> done.properties,
                  properties_cache |-> cache,
                  values |-> done.values,
                  outcome |-> IF fail = "none" THEN "committed"
                              ELSE IF fail = "panic" THEN "panicked"
                              ELSE "rolled_back",
                  error |-> fail,
                  begun |-> TRUE]

\* edit_handler::run, one iteration of its loop. A failed begin leaves the
\* loop (edit_handler_next)
edit_handler_run(pe, fail) ==
    /\ run_state = "running"
    /\ edits_left > 0
    /\ cur_edit = NoEdit
    /\ cur_edit' = pe
    /\ edits_left' = edits_left - 1
    /\ run_state' = run_state
    /\ UNCHANGED <<rvars, pvars, qvars, svars, bvars>>
    /\ LET r == edit_transaction(properties, properties_cache, values, pe, fail)
       IN  /\ properties' = r.properties
           /\ properties_cache' = r.properties_cache
           /\ values' = r.values
           /\ relations' = relations_transaction(relations, pe, fail)
           /\ values_to_validate' = created_values_of(pe, fail, r.properties_cache)
           /\ validated_created_values' =
                  validate_created_values(created_values_of(pe, fail, r.properties_cache))
           /\ edit_outcome' = r.outcome
           /\ edit_error' = r.error
           /\ edit_begun' = r.begun
           /\ edit_issued' = issued_operations(pe, fail)

\* edit_handler::run, the end of an iteration: after a failed begin the
\* error is returned, otherwise the loop takes the next edit
edit_handler_next ==
    /\ cur_edit # NoEdit
    /\ cur_edit' = NoEdit
    /\ edit_outcome' = None
    /\ edit_error' = None
    /\ edit_begun' = FALSE
    /\ edit_issued' = <<>>
    /\ run_state' = IF edit_outcome = "begin_failed" THEN "Err" ELSE run_state
    /\ values_to_validate' = <<>>
    /\ validated_created_values' = <<>>
    /\ UNCHANGED <<properties, properties_cache, values, relations, edits_left>>
    /\ UNCHANGED <<rvars, pvars, qvars, svars, bvars>>

\* edit_handler::run, the list is exhausted: Ok(())
edit_handler_return ==
    /\ run_state = "running"
    /\ cur_edit = NoEdit
    /\ edits_left = 0
    /\ run_state' = "Ok"
    /\ UNCHANGED <<properties, properties_cache, values, relations, values_to_validate,
                   validated_created_values, cur_edit, edit_outcome,
                   edit_error, edit_begun, edit_issued, edits_left>>
    /\ UNCHANGED <<rvars, pvars, qvars, svars, bvars>>

\* ------------------------------------------------ content resolver
DaoAddresses == {"dao1", "bad"}

\* get_blocklist().dao_addresses
Blocklist == {"bad"}

ContentUris == {"u1", "u2"}

START_BLOCK == 67162

LastBlock == START_BLOCK + MaxBlocks - 1

\* Semaphore::new(20)
Permits == 20

\* EditPublished and PublishEditProposalCreated, the fields the services read
Event(dao, uri) == [dao_address |-> dao, content_uri |-> uri]

Events == {Event(d, u) : d \in DaoAddresses, u \in ContentUris}

\* GeoOutput of one block
GeoOutput(published, proposed) == [edits_published |-> published, edits |-> proposed]

GeoOutputs ==
    {GeoOutput(a, b) : a \in SeqsUpTo(Events, MaxEvents), b \in SeqsUpTo(Events, MaxEvents)}

NoBlock == [block_number |-> 0, geo |-> GeoOutput(<<>>, <<>>)]

derive_space_id(network, dao) == <<network, dao>>

\* the decoded Edit the gateway serves for a URI
IpfsEdit(uri) == [id |-> [bytes |-> uri, len |-> 16]]

\* a cache item that is never marked errored
CacheItem_not_errored(uri, json, block, space, is_errored) ==
    [uri |-> uri, json |-> json, block |-> block, space |-> space,
     is_errored |-> FALSE]

CacheItem(uri, json, block, space, is_errored) ==
    [uri |-> uri, json |-> json, block |-> block, space |-> space,
     is_errored |-> is_errored]

\* a check that never finds a row
has_never(table, uri) == FALSE

\* Storage::has
has(table, uri) == \E i \in 1..Len(table) : table[i].uri = uri

\* a table without a key: no row is rejected
ipfs_cache_pkey_none(table, uri) == FALSE

\* the primary key of ipfs_cache: a second row with the uri is rejected
ipfs_cache_pkey(table, uri) == \E i \in 1..Len(table) : table[i].uri = uri

\* Storage::insert, a plain INSERT: the statement fails when the database
\* fails and when the primary key rejects the row
Storage_insert(table, item, db_ok) ==
    IF ~db_ok THEN [result |-> "database_error", table |-> table]
    ELSE IF ipfs_cache_pkey(table, item.uri)
    THEN [result |-> "unique_violation", table |-> table]
    ELSE [result |-> "ok", table |-> Append(table, item)]

\* Storage::persist_cursor for id "ipfs_indexer": insert, or on conflict
\* overwrite cursor and block_number
persist_cursor(row, cursor, block) == <<[cursor |-> cursor, block_number |-> block]>>

\* a load that finds no cursor, whatever is stored
load_persisted_cursor_none(row) == <<>>

\* load_persisted_cursor: the cursor of row "ipfs_indexer", if there is one
load_persisted_cursor(row) == IF row = <<>> THEN <<>> ELSE <<row[1].cursor>>

\* the two loops of process_block_scoped_data, in their order
block_events(geo) == geo.edits_published \o geo.edits

\* the URIs the resolver is to resolve for a block
resolvable_uris(geo) ==
    {block_events(geo)[i].content_uri :
        i \in {j \in 1..Len(block_events(geo)) :
                  block_events(geo)[j].dao_address \notin Blocklist}}

Task(id, ev, block) ==
    [id |-> id, uri |-> ev.content_uri, dao |-> ev.dao_address, block |-> block,
     pc |-> "has", item |-> <<>>]

\* Sink::run, start of the service: the stream resumes behind the persisted
\* cursor, or at START_BLOCK when none is stored
stream_start ==
    /\ r_pc = "start"
    /\ LET c == load_persisted_cursor(cursors)
       IN  /\ r_resumed' = c
           /\ r_next' = IF c = <<>> THEN START_BLOCK ELSE c[1] + 1
    /\ r_pc' = "wait"
    /\ UNCHANGED <<ipfs_cache, cursors, chain_head, referenced, r_idx, tasks,
                   permits, crashes, put_log>>
    /\ UNCHANGED <<evars, pvars, qvars, svars, bvars>>

\* Sink::run, the stream delivers block r_next: the chain's content at a
\* height is fixed, a block delivered again has the content it had
stream_deliver(geo) ==
    /\ r_pc = "wait"
    /\ r_next <= LastBlock
    /\ chain_head.block_number = r_next => geo = chain_head.geo
    /\ chain_head' = [block_number |-> r_next, geo |-> geo]
    /\ referenced' = referenced \cup resolvable_uris(geo)
    /\ r_pc' = "process"
    /\ r_idx' = 1
    /\ UNCHANGED <<r_resumed, ipfs_cache, cursors, r_next, tasks, permits, crashes, put_log>>
    /\ UNCHANGED <<evars, pvars, qvars, svars, bvars>>

\* the loops of process_block_scoped_data without the semaphore: a task is
\* spawned for every event of a DAO that is not blocklisted
process_block_scoped_data_no_semaphore ==
    /\ r_pc = "process"
    /\ r_idx <= Len(block_events(chain_head.geo))
    /\ LET ev == block_events(chain_head.geo)[r_idx]
       IN  IF ev.dao_address \in Blocklist
           THEN UNCHANGED <<tasks, permits>>
           ELSE /\ permits' = permits - 1
                /\ tasks' = tasks \cup
                       {Task(<<chain_head.block_number, r_idx>>, ev,
                             chain_head.block_number)}
    /\ r_idx' = r_idx + 1
    /\ UNCHANGED <<r_resumed, ipfs_cache, cursors, chain_head, referenced, r_pc, r_next,
                   crashes, put_log>>
    /\ UNCHANGED <<evars, pvars, qvars, svars, bvars>>

\* process_block_scoped_data, one iteration of its loops: an event of a
\* blocklisted DAO is skipped, for any other a permit is acquired and a
\* task is spawned
process_block_scoped_data ==
    /\ r_pc = "process"
    /\ r_idx <= Len(block_events(chain_head.geo))
    /\ LET ev == block_events(chain_head.geo)[r_idx]
       IN  IF ev.dao_address \in Blocklist
           THEN UNCHANGED <<tasks, permits>>
           ELSE /\ permits > 0
                /\ permits' = permits - 1
                /\ tasks' = tasks \cup
                       {Task(<<chain_head.block_number, r_idx>>, ev,
                             chain_head.block_number)}
    /\ r_idx' = r_idx + 1
    /\ UNCHANGED <<r_resumed, ipfs_cache, cursors, chain_head, referenced, r_pc, r_next,
                   crashes, put_log>>
    /\ UNCHANGED <<evars, pvars, qvars, svars, bvars>>

\* process_block_scoped_data returns Ok and Sink::run persists the cursor
\* of the block, whatever tasks are still running
sink_persist_cursor ==
    /\ r_pc = "process"
    /\ r_idx > Len(block_events(chain_head.geo))
    /\ cursors' = persist_cursor(cursors, chain_head.block_number,
                                 chain_head.block_number)
    /\ r_next' = chain_head.block_number + 1
    /\ r_pc' = "wait"
    /\ UNCHANGED <<r_resumed, ipfs_cache, chain_head, referenced, r_idx, tasks, permits,
                   crashes, put_log>>
    /\ UNCHANGED <<evars, pvars, qvars, svars, bvars>>

\* the end of a spawned task on any path: the permit it owns is dropped
task_end(t) ==
    /\ tasks' = tasks \ {t}
    /\ permits' = permits + 1

\* a check whose early return on an error keeps the permit of the task
process_edit_event_has_leak(t, db_ok) ==
    /\ t \in tasks
    /\ t.pc = "has"
    /\ IF db_ok /\ ~has(ipfs_cache, t.uri)
       THEN /\ tasks' = (tasks \ {t}) \cup {[t EXCEPT !.pc = "fetch"]}
            /\ UNCHANGED permits
       ELSE IF db_ok THEN task_end(t)
       ELSE /\ tasks' = tasks \ {t}
            /\ UNCHANGED permits
    /\ UNCHANGED <<r_resumed, ipfs_cache, cursors, chain_head, referenced, r_pc, r_next,
                   r_idx, crashes, put_log>>
    /\ UNCHANGED <<evars, pvars, qvars, svars, bvars>>

\* process_edit_event, the check under the lock: an error of has returns
\* Err, an existing row returns Ok, otherwise the content is fetched
process_edit_event_has(t, db_ok) ==
    /\ t \in tasks
    /\ t.pc = "has"
    /\ IF db_ok /\ ~has(ipfs_cache, t.uri)
       THEN /\ tasks' = (tasks \ {t}) \cup {[t EXCEPT !.pc = "fetch"]}
            /\ UNCHANGED permits
       ELSE task_end(t)
    /\ UNCHANGED <<r_resumed, ipfs_cache, cursors, chain_head, referenced, r_pc, r_next,
                   r_idx, crashes, put_log>>
    /\ UNCHANGED <<evars, pvars, qvars, svars, bvars>>

\* process_edit_event, ipfs.get and the item built from its result
process_edit_event_fetch(t, fetched) ==
    /\ t \in tasks
    /\ t.pc = "fetch"
    /\ LET item == IF fetched
                   THEN CacheItem(t.uri, <<IpfsEdit(t.uri)>>, t.block,
                                  derive_space_id("GEO", t.dao), FALSE)
                   ELSE CacheItem(t.uri, <<>>, t.block,
                                  derive_space_id("GEO", t.dao), TRUE)
       IN  tasks' = (tasks \ {t}) \cup {[t EXCEPT !.pc = "put", !.item = <<item>>]}
    /\ UNCHANGED <<r_resumed, ipfs_cache, cursors, chain_head, referenced, r_pc, r_next,
                   r_idx, permits, crashes, put_log>>
    /\ UNCHANGED <<evars, pvars, qvars, svars, bvars>>

\* process_edit_event, the put under the lock: a failed write is logged (Ok
\* path) or returned (Err path), the task ends either way
process_edit_event_put(t, db_ok) ==
    /\ t \in tasks
    /\ t.pc = "put"
    /\ LET res == Storage_insert(ipfs_cache, t.item[1], db_ok)
       IN  /\ ipfs_cache' = res.table
           /\ put_log' = [uri |-> t.uri, result |-> res.result]
    /\ task_end(t)
    /\ UNCHANGED <<r_resumed, cursors, chain_head, referenced, r_pc, r_next, r_idx, crashes>>
    /\ UNCHANGED <<evars, pvars, qvars, svars, bvars>>

\* the resolver process dies and is started again: its tasks and its
\* position are lost, the tables stay
resolver_crash ==
    /\ crashes < MaxCrashes
    /\ crashes' = crashes + 1
    /\ tasks' = {}
    /\ permits' = Permits
    /\ r_pc' = "start"
    /\ r_next' = START_BLOCK
    /\ r_idx' = 1
    /\ UNCHANGED <<r_resumed, ipfs_cache, cursors, chain_head, referenced, put_log>>
    /\ UNCHANGED <<evars, pvars, qvars, svars, bvars>>

InitResolverVars ==
    /\ ipfs_cache = <<>>
    /\ cursors = <<>>
    /\ chain_head = NoBlock
    /\ referenced = {}
    /\ r_pc = "start"
    /\ r_next = START_BLOCK
    /\ r_resumed = <<>>
    /\ r_idx = 1
    /\ tasks = {}
    /\ permits = Permits
    /\ crashes = 0
    /\ put_log = [uri |-> None, result |-> None]

\* ------------------------------------------------ indexer preprocessing
Min(a, b) == IF a < b THEN a ELSE b

NoKgData == [edits |-> <<>>, created_proposals |-> <<>>]

\* the PreprocessedEdit the cache backend builds from a row of ipfs_cache
CachedEdit(row) ==
    [cid |-> row.uri, edit |-> row.json, is_errored |-> row.is_errored,
     space_id |-> row.space]

\* CacheBackend::get: the entry of the URI, NotFound without a row, a
\* database error when the query fails
CacheBackend_get(table, uri, db_ok) ==
    IF db_ok /\ has(table, uri)
    THEN [ok |-> TRUE,
          entry |-> <<CachedEdit(table[CHOOSE i \in 1..Len(table) : table[i].uri = uri])>>]
    ELSE [ok |-> FALSE, entry |-> <<>>]

\* the list as it is, repeated URIs kept
deduplicate_content_uris_identity(uris) == uris

\* deduplicate_content_uris: each URI once
RECURSIVE deduplicate_content_uris(_)
deduplicate_content_uris(uris) ==
    IF uris = <<>> THEN <<>>
    ELSE LET init == SubSeq(uris, 1, Len(uris) - 1)
             last == uris[Len(uris)]
         IN  IF \E i \in 1..Len(init) : init[i] = last
             THEN deduplicate_content_uris(init)
             ELSE Append(deduplicate_content_uris(init), last)

NotBlocklisted(ev) == ev.dao_address \notin Blocklist

\* preprocess_block_scoped_data, the filter of edits_published
non_blocklisted_edits_published(geo) == SelectSeq(geo.edits_published, NotBlocklisted)

uris_of(events) == [i \in 1..Len(events) |-> events[i].content_uri]

\* preprocess_block_scoped_data: the URIs of the published edits that are
\* not blocklisted, then the URIs of all of geo.edits
all_content_uris(geo) ==
    uris_of(non_blocklisted_edits_published(geo)) \o uris_of(geo.edits)

\* the retry strategy ExponentialBackoff::from_millis(10).factor(2)
\* .max_delay(5 s).map(jitter): an iterator without an end, it yields a
\* delay after every failed attempt
retry_strategy_next(retries) == <<"delay">>

Handle(uri) == [uri |-> uri, state |-> "attempt", retries |-> 0, entry |-> <<>>]

\* fetch_deduplicated_cache_entries, the result loop: the entries of the
\* tasks that returned Some
collect_results(handles) ==
    LET some == {i \in 1..Len(handles) : handles[i].state = "some"}
    IN  [u \in {handles[i].uri : i \in some} |->
            handles[CHOOSE i \in some :
                       handles[i].uri = u
                       /\ \A j \in some : handles[j].uri = u => j <= i].entry[1]]

\* a transformation that takes ids of any length
transform_id_bytes_any_length(id) == <<id.bytes>>

\* indexer_utils::id::transform_id_bytes: a UUID from exactly 16 bytes
transform_id_bytes(id) == IF id.len = 16 THEN <<id.bytes>> ELSE <<>>

\* map_created_proposals, the PublishEdit proposals of geo.edits
map_created_proposals(geo, map) ==
    [i \in 1..Len(geo.edits) |->
        LET p == geo.edits[i]
            edit_id ==
                IF p.content_uri \in DOMAIN map
                THEN LET cached_edit == map[p.content_uri]
                     IN  IF ~cached_edit.is_errored
                         THEN IF cached_edit.edit # <<>>
                              THEN transform_id_bytes(cached_edit.edit[1].id)
                              ELSE <<>>
                         ELSE <<>>
                ELSE <<>>
        IN  [type |-> "PublishEdit", content_uri |-> p.content_uri,
             dao_address |-> p.dao_address, edit_id |-> edit_id]]

\* final edits that leave out an edit whose URI an earlier event of the
\* block published
final_edits_once_per_uri(geo, map) ==
    LET nb == non_blocklisted_edits_published(geo)
        keep == {i \in 1..Len(nb) :
                    /\ nb[i].content_uri \in DOMAIN map
                    /\ ~\E j \in 1..(i-1) : nb[j].content_uri = nb[i].content_uri}
        F[i \in 0..Len(nb)] ==
            IF i = 0 THEN <<>>
            ELSE IF i \in keep THEN Append(F[i-1], map[nb[i].content_uri]) ELSE F[i-1]
    IN  F[Len(nb)]

\* preprocess_block_scoped_data, final_edits: the cached edit of every
\* published edit that is not blocklisted and whose URI is in the map
final_edits(geo, map) ==
    LET InMap(ev) == ev.content_uri \in DOMAIN map
        present == SelectSeq(non_blocklisted_edits_published(geo), InMap)
    IN  [i \in 1..Len(present) |-> map[present[i].content_uri]]

rvars_but_cache == <<cursors, chain_head, referenced, r_pc, r_next, r_resumed,
                     r_idx, tasks, permits, crashes, put_log>>

\* preprocess_block_scoped_data up to the spawn of the cache reads: one
\* task per URI deduplicate_content_uris returns
preprocess_block_scoped_data(geo) ==
    /\ pp_pc = "idle"
    /\ pp_geo' = geo
    /\ LET unique_uris == deduplicate_content_uris(all_content_uris(geo))
       IN  pp_handles' = [i \in 1..Len(unique_uris) |-> Handle(unique_uris[i])]
    /\ request_counts' = [u \in ContentUris |-> 0]
    /\ cache_map' = <<>>
    /\ kg_data' = NoKgData
    /\ pp_pc' = "fetching"
    /\ UNCHANGED <<evars, rvars, qvars, svars, bvars>>

\* Retry::spawn, one attempt of a task: cache.get, on an error the next
\* delay of the strategy, or Err when the strategy has ended
cache_get_attempt(i, db_ok) ==
    /\ pp_pc = "fetching"
    /\ i \in 1..Len(pp_handles)
    /\ pp_handles[i].state = "attempt"
    /\ LET h == pp_handles[i]
           r == CacheBackend_get(ipfs_cache, h.uri, db_ok)
       IN  /\ request_counts' =
                  [request_counts EXCEPT ![h.uri] = Min(@ + 1, MaxRetries + 1)]
           /\ pp_handles' =
                  [pp_handles EXCEPT ![i] =
                      IF r.ok THEN [h EXCEPT !.state = "some", !.entry = r.entry]
                      ELSE IF retry_strategy_next(h.retries) = <<>>
                      THEN [h EXCEPT !.state = "none"]
                      ELSE [h EXCEPT !.state = "backoff",
                                     !.retries = Min(@ + 1, MaxRetries)]]
    /\ UNCHANGED <<pp_geo, pp_pc, cache_map, kg_data>>
    /\ UNCHANGED <<evars, rvars, qvars, svars, bvars>>

\* Retry::spawn, the delay before the next attempt has passed
retry_delay_elapsed(i) ==
    /\ pp_pc = "fetching"
    /\ i \in 1..Len(pp_handles)
    /\ pp_handles[i].state = "backoff"
    /\ pp_handles' = [pp_handles EXCEPT ![i].state = "attempt"]
    /\ UNCHANGED <<pp_geo, pp_pc, request_counts, cache_map, kg_data>>
    /\ UNCHANGED <<evars, rvars, qvars, svars, bvars>>

\* join_all returns when every task has ended; the map is collected and
\* preprocess_block_scoped_data builds the KgData
preprocess_join ==
    /\ pp_pc = "fetching"
    /\ \A i \in 1..Len(pp_handles) : pp_handles[i].state \in {"some", "none"}
    /\ LET map == collect_results(pp_handles)
       IN  /\ cache_map' = map
           /\ kg_data' = [edits |-> final_edits(pp_geo, map),
                          created_proposals |-> map_created_proposals(pp_geo, map)]
    /\ pp_pc' = "done"
    /\ UNCHANGED <<pp_geo, pp_handles, request_counts>>
    /\ UNCHANGED <<evars, rvars, qvars, svars, bvars>>

\* the KgData is handed on and the indexer waits for the next block
preprocess_return ==
    /\ pp_pc = "done"
    /\ pp_pc' = "idle"
    /\ pp_geo' = GeoOutput(<<>>, <<>>)
    /\ pp_handles' = <<>>
    /\ request_counts' = [u \in ContentUris |-> 0]
    /\ cache_map' = <<>>
    /\ kg_data' = NoKgData
    /\ UNCHANGED <<evars, rvars, qvars, svars, bvars>>

\* the resolver service, running beside the indexer, writes the row of a
\* URI that a non-blocklisted event referenced
resolver_put(uri, fetched) ==
    /\ ~has(ipfs_cache, uri)
    /\ LET item == CacheItem(uri, IF fetched THEN <<IpfsEdit(uri)>> ELSE <<>>,
                             START_BLOCK, derive_space_id("GEO", "dao1"), ~fetched)
       IN  ipfs_cache' = Storage_insert(ipfs_cache, item, TRUE).table
    /\ UNCHANGED <<evars, rvars_but_cache, pvars, qvars, svars, bvars>>

InitPreprocessVars ==
    /\ pp_geo = GeoOutput(<<>>, <<>>)
    /\ pp_pc = "idle"
    /\ pp_handles = <<>>
    /\ request_counts = [u \in ContentUris |-> 0]
    /\ cache_map = <<>>
    /\ kg_data = NoKgData

\* ------------------------------------------------ proposal handler
ProposalIds == {"7", "uuid-a"}

\* the strings Uuid::parse_str accepts
UuidStrings == {"uuid-a"}

\* the values Uuid::new_v4 may return
FreshUuids == {"r1", "r2"}

ProposalTypes == {"PublishEdit", "AddMember"}

\* the plugin every proposal event of the model comes from
PluginAddress == "plugin1"

\* derive_proposal_id: the UUID built from the md5 of
\* "checksum(dao):proposal_id:checksum(plugin)"; a hash is neither one of
\* the strings an event carries nor a UUID that Uuid::new_v4 returns
derive_proposal_id(dao_address, proposal_id, plugin_address) ==
    "md5(" \o dao_address \o ":" \o proposal_id \o ":" \o plugin_address \o ")"

\* ProposalCreated, the fields ProposalsModel reads and the plugin address
ProposalCreated(type, proposal_id, dao, content_uri, edit_id) ==
    [type |-> type, proposal_id |-> proposal_id, dao_address |-> dao,
     plugin_address |-> PluginAddress,
     content_uri |-> content_uri, edit_id |-> edit_id]

ExecutedProposal(proposal_id) == [proposal_id |-> proposal_id]

\* Uuid::parse_str
Uuid_parse_str(str) == IF str \in UuidStrings THEN <<str>> ELSE <<>>

\* an id that prefers the on-chain proposal id to the edit id
proposal_item_id_proposal_first(p, fresh) ==
    IF Uuid_parse_str(p.proposal_id) # <<>> THEN Uuid_parse_str(p.proposal_id)[1]
    ELSE IF p.type = "PublishEdit" /\ p.edit_id # <<>> THEN p.edit_id[1]
    ELSE fresh

\* ProposalsModel::map_created_proposals, the id of an item: the edit id of
\* a PublishEdit proposal if there is one, else the proposal id parsed as a
\* UUID, else a new random UUID
proposal_item_id(p, fresh) ==
    IF p.type = "PublishEdit" /\ p.edit_id # <<>> THEN p.edit_id[1]
    ELSE IF Uuid_parse_str(p.proposal_id) # <<>> THEN Uuid_parse_str(p.proposal_id)[1]
    ELSE fresh

\* ProposalsModel::map_created_proposals; fresh[i] is what Uuid::new_v4
\* returns if it is called for item i
ProposalsModel_map_created_proposals(created, block_number, fresh) ==
    [i \in 1..Len(created) |->
        [id |-> proposal_item_id(created[i], fresh[i]),
         space_id |-> derive_space_id("GEO", created[i].dao_address),
         proposal_type |-> created[i].type,
         status |-> "created",
         content_uri |-> IF created[i].type = "PublishEdit"
                         THEN <<created[i].content_uri>> ELSE <<>>,
         created_at_block |-> block_number]]

\* a mapping that names no executed proposal
ProposalsModel_map_executed_proposals_none(executed) == <<>>

\* ProposalsModel::map_executed_proposals: the ids that parse as a UUID
RECURSIVE ProposalsModel_map_executed_proposals(_)
ProposalsModel_map_executed_proposals(executed) ==
    IF executed = <<>> THEN <<>>
    ELSE Uuid_parse_str(executed[1].proposal_id)
             \o ProposalsModel_map_executed_proposals(Tail(executed))

\* insert_proposals: upsert by primary key id
RECURSIVE insert_proposals(_, _)
insert_proposals(table, items) ==
    IF items = <<>> THEN table
    ELSE insert_proposals({r \in table : r.id # items[1].id} \cup {items[1]},
                          Tail(items))

\* update_proposal_status(ids, status)
update_proposal_status(table, ids, status) ==
    {IF \E i \in 1..Len(ids) : ids[i] = r.id THEN [r EXCEPT !.status = status] ELSE r :
        r \in table}

\* proposal_handler::run on a table: proposals inserted if there are any,
\* then the executed ones marked
proposal_handler_writes(table, created, executed, block_number, fresh) ==
    LET inserted == IF created # <<>>
                    THEN insert_proposals(table,
                             ProposalsModel_map_created_proposals(created, block_number, fresh))
                    ELSE table
    IN  IF executed # <<>>
        THEN update_proposal_status(inserted,
                 ProposalsModel_map_executed_proposals(executed), "executed")
        ELSE inserted

\* proposal_handler::run: one transaction, every error returns Err and the
\* transaction is dropped
proposal_handler_run(created, executed, fresh, fail) ==
    /\ proposals' = transaction(fail, proposals,
                        proposal_handler_writes(proposals, created, executed,
                                                q_number', fresh))
    /\ q_outcome' = IF fail = "none" THEN "Ok" ELSE "Err"
    /\ q_block' = [created |-> created, executed |-> executed]

NoProposalBlock == [created |-> <<>>, executed |-> <<>>]

\* a block is applied for the first time
proposal_block(created, executed, fresh, fail) ==
    /\ q_number < MaxBlocks
    /\ q_number' = q_number + 1
    /\ q_runs' = 1
    /\ proposal_handler_run(created, executed, fresh, fail)
    /\ q_first' = proposals'
    /\ UNCHANGED <<evars, rvars, pvars, svars, bvars>>

\* the block last applied is applied again, as after a restart whose
\* cursor lies before it
proposal_block_replay(fresh, fail) ==
    /\ q_runs >= 1
    /\ q_outcome = "Ok"
    /\ q_runs < 1 + MaxReplays
    /\ q_runs' = q_runs + 1
    /\ q_number' = q_number
    /\ proposal_handler_run(q_block.created, q_block.executed, fresh, fail)
    /\ UNCHANGED q_first
    /\ UNCHANGED <<evars, rvars, pvars, svars, bvars>>

InitProposalVars ==
    /\ proposals = {}
    /\ q_block = NoProposalBlock
    /\ q_number = 0
    /\ q_runs = 0
    /\ q_first = {}
    /\ q_outcome = None

\* ----------------------------------- preprocessing: spaces and members
\* most events of one kind in the GeoOutput of a block
MaxSpaceEvents == 2

SpaceDaos == {"dao1", "dao2"}
VotingAddresses == {"v1", "v2"}
MemberAddresses == {"a1"}

\* wire::pb::chain events, the fields preprocessing reads
GeoSpaceCreated(dao) ==
    [dao_address |-> dao, space_address |-> <<"space", dao>>]
GeoGovernancePluginCreated(dao, voting) ==
    [dao_address |-> dao, main_voting_address |-> voting,
     member_access_address |-> <<"access", voting>>]
GeoPersonalSpaceAdminPluginCreated(dao) ==
    [dao_address |-> dao, personal_admin_address |-> <<"admin", dao>>]
EditorAdded(dao, address) ==
    [dao_address |-> dao, editor_address |-> address]
MemberAdded(dao, address) ==
    [dao_address |-> dao, member_address |-> address]

PublicSpace(space, plugin) ==
    [type |-> "Public",
     dao_address |-> space.dao_address,
     space_address |-> space.space_address,
     membership_plugin |-> plugin.member_access_address,
     governance_plugin |-> plugin.main_voting_address]
PersonalSpace(space, plugin) ==
    [type |-> "Personal",
     dao_address |-> space.dao_address,
     space_address |-> space.space_address,
     personal_plugin |-> plugin.personal_admin_address]

AddedMember(dao, address) ==
    [dao_address |-> dao, editor_address |-> address]

\* Iterator::find: the first element of plugins with the DAO address, as an
\* Option
find_plugin(plugins, dao) ==
    LET idx == {i \in 1..Len(plugins) : plugins[i].dao_address = dao}
    IN  IF idx = {} THEN <<>>
        ELSE <<plugins[CHOOSE i \in idx : \A j \in idx : i <= j]>>

\* an iteration that looks for the personal plugin first
match_space_personal_first(space, governance_plugins, personal_plugins) ==
    LET g == find_plugin(governance_plugins, space.dao_address)
        q == find_plugin(personal_plugins, space.dao_address)
    IN  IF q # <<>> THEN <<PersonalSpace(space, q[1])>>
        ELSE IF g # <<>> THEN <<PublicSpace(space, g[1])>>
        ELSE <<>>

\* one iteration of the loop of match_spaces_with_plugins
match_space(space, governance_plugins, personal_plugins) ==
    LET g == find_plugin(governance_plugins, space.dao_address)
        q == find_plugin(personal_plugins, space.dao_address)
    IN  IF g # <<>> THEN <<PublicSpace(space, g[1])>>
        ELSE IF q # <<>> THEN <<PersonalSpace(space, q[1])>>
        ELSE <<>>

RECURSIVE match_spaces_with_plugins(_, _, _)
match_spaces_with_plugins(spaces, governance_plugins, personal_plugins) ==
    IF spaces = <<>> THEN <<>>
    ELSE match_space(Head(spaces), governance_plugins, personal_plugins)
         \o match_spaces_with_plugins(Tail(spaces), governance_plugins, personal_plugins)

map_editors_added(editors) ==
    [i \in 1..Len(editors) |->
        AddedMember(editors[i].dao_address, editors[i].editor_address)]

map_members_added(members) ==
    [i \in 1..Len(members) |->
        AddedMember(members[i].dao_address, members[i].member_address)]

\* the DAO addresses of the created spaces (a HashSet)
created_space_dao_addresses(created_spaces) ==
    {created_spaces[i].dao_address : i \in 1..Len(created_spaces)}

\* a test that promotes every added editor
promotes_all(editor, dao_addresses) == TRUE

\* whether an added editor is pushed onto added_members
promotes(editor, dao_addresses) == editor.dao_address \in dao_addresses

\* the loop over added_editors that pushes the initial members
RECURSIVE promoted_members(_, _)
promoted_members(added_editors, dao_addresses) ==
    IF added_editors = <<>> THEN <<>>
    ELSE (IF promotes(Head(added_editors), dao_addresses)
          THEN <<AddedMember(Head(added_editors).dao_address,
                             Head(added_editors).editor_address)>>
          ELSE <<>>)
         \o promoted_members(Tail(added_editors), dao_addresses)

SpaceEvents(spaces, governance, personal, editors, members) ==
    [spaces_created |-> spaces,
     governance_plugins_created |-> governance,
     personal_plugins_created |-> personal,
     editors_added |-> editors,
     members_added |-> members]

NoSpaceEvents == SpaceEvents(<<>>, <<>>, <<>>, <<>>, <<>>)

NoSpaceOutput == [spaces |-> <<>>, added_editors |-> <<>>, added_members |-> <<>>]

\* preprocess_block_scoped_data, the part that builds KgData.spaces,
\* KgData.added_editors and KgData.added_members
preprocess_spaces_and_members ==
    /\ sp_pc = "input"
    /\ sp_pc' = "done"
    /\ LET created_spaces ==
               match_spaces_with_plugins(sp_geo.spaces_created,
                                         sp_geo.governance_plugins_created,
                                         sp_geo.personal_plugins_created)
           added_editors == map_editors_added(sp_geo.editors_added)
           added_members ==
               map_members_added(sp_geo.members_added)
               \o promoted_members(added_editors,
                                   created_space_dao_addresses(created_spaces))
       IN  sp_out' = [spaces |-> created_spaces,
                      added_editors |-> added_editors,
                      added_members |-> added_members]
    /\ UNCHANGED sp_geo
    /\ UNCHANGED <<evars, rvars, pvars, qvars, bvars>>

InitSpaceVars ==
    /\ sp_geo = NoSpaceEvents
    /\ sp_pc = "done"
    /\ sp_out = NoSpaceOutput

\* ------------------------------------------------------- block handlers
\* most blocks handed to root_handler::run
MaxRootBlocks == 1
\* most membership events of one kind in a block
MaxMemberEvents == 2

GEO == "GEO"
Handlers == {"space", "membership", "subspace"}

\* KgData, the fields root_handler::run hands to its four handlers
KgData(spaces, added_members, removed_members, added_editors, removed_editors, added_subspaces, removed_subspaces, edits) ==
    [spaces |-> spaces,
     added_members |-> added_members,
     removed_members |-> removed_members,
     added_editors |-> added_editors,
     removed_editors |-> removed_editors,
     added_subspaces |-> added_subspaces,
     removed_subspaces |-> removed_subspaces,
     edits |-> edits,
     executed_proposals |-> <<>>,
     created_proposals |-> <<>>]

NoBlockData == KgData(<<>>, <<>>, <<>>, <<>>, <<>>, <<>>, <<>>, <<>>)

AddedSubspace(dao, subspace) ==
    [dao_address |-> dao, subspace_address |-> subspace]

\* which transactions of the block fail: one flag per handler and one fail
\* point per edit
Failures(space, membership, subspace, edits) ==
    [space |-> space, membership |-> membership, subspace |-> subspace,
     edits |-> edits]

NoFailures == Failures(FALSE, FALSE, FALSE, <<>>)

\* a column that references the spaces table
references_spaces(spaces_table, space_id) == space_id \in spaces_table

\* members.space_id and editors.space_id: rows are written for spaces that
\* have no row in the spaces table
references_ok(spaces_table, space_id) == TRUE

MemberRow(m) == <<derive_space_id(GEO, m.dao_address), m.editor_address>>

\* an insert on a table with no key on (space_id, address)
add_member_no_key(table, row) == table (+) SetToBag({row})

\* StorageBackend::add_member and add_editor: idempotent on (space_id, address)
add_member(table, row) ==
    IF BagIn(row, table) THEN table ELSE table (+) SetToBag({row})

\* StorageBackend::remove_member and remove_editor: no row, no effect
remove_member(table, row) ==
    [r \in DOMAIN table \ {row} |-> table[r]]

RECURSIVE add_members(_, _, _)
add_members(tx, added, spaces_table) ==
    IF added = <<>> \/ tx.aborted THEN tx
    ELSE IF ~references_ok(spaces_table, MemberRow(Head(added))[1])
    THEN [tx EXCEPT !.aborted = TRUE]
    ELSE add_members([tx EXCEPT !.table = add_member(tx.table, MemberRow(Head(added)))],
                     Tail(added), spaces_table)

RECURSIVE remove_members(_, _)
remove_members(tx, removed) ==
    IF removed = <<>> \/ tx.aborted THEN tx
    ELSE remove_members([tx EXCEPT !.table = remove_member(tx.table, MemberRow(Head(removed)))],
                        Tail(removed))

\* a membership transaction that applies the removals first
membership_writes_removals_first(table, added, removed, spaces_table) ==
    add_members(remove_members([aborted |-> FALSE, table |-> table], removed),
                added, spaces_table)

\* membership_handler::run on one of its two tables: additions, then removals
membership_writes(table, added, removed, spaces_table) ==
    remove_members(add_members([aborted |-> FALSE, table |-> table], added, spaces_table),
                   removed)

\* membership_handler::run: one transaction over members and editors
membership_handler_writes(members, editors, data, spaces_table, fail) ==
    LET m == membership_writes(members, data.added_members, data.removed_members,
                               spaces_table)
        e == membership_writes(editors, data.added_editors, data.removed_editors,
                               spaces_table)
    IN  IF fail \/ m.aborted \/ e.aborted
        THEN [result |-> "Err", members |-> members, editors |-> editors]
        ELSE [result |-> "Ok", members |-> m.table, editors |-> e.table]

\* space_handler::run: one transaction, insert_spaces is idempotent on id
space_handler_writes(spaces_table, data, fail) ==
    IF fail THEN [result |-> "Err", spaces |-> spaces_table]
    ELSE [result |-> "Ok",
          spaces |-> spaces_table \cup
              {derive_space_id(GEO, data.spaces[i].dao_address) :
                  i \in 1..Len(data.spaces)}]

SubspaceRow(x) ==
    <<derive_space_id(GEO, x.dao_address), derive_space_id(GEO, x.subspace_address)>>

\* StorageBackend::add_subspace in a transaction: the parent and the child
\* of a subspaces row are rows of the spaces table
RECURSIVE add_subspaces(_, _, _)
add_subspaces(tx, added, spaces_table) ==
    IF added = <<>> \/ tx.aborted THEN tx
    ELSE IF ~( /\ references_spaces(spaces_table, SubspaceRow(Head(added))[1])
               /\ references_spaces(spaces_table, SubspaceRow(Head(added))[2]) )
    THEN [tx EXCEPT !.aborted = TRUE]
    ELSE add_subspaces([tx EXCEPT !.table = tx.table \cup {SubspaceRow(Head(added))}],
                       Tail(added), spaces_table)

\* subspace_handler::run: one transaction, additions then removals
subspace_handler_writes(subspaces_table, data, spaces_table, fail) ==
    LET a == add_subspaces([aborted |-> FALSE, table |-> subspaces_table],
                           data.added_subspaces, spaces_table)
    IN  IF fail \/ a.aborted
        THEN [result |-> "Err", subspaces |-> subspaces_table]
        ELSE [result |-> "Ok",
              subspaces |-> a.table \ {SubspaceRow(data.removed_subspaces[i]) :
                                          i \in 1..Len(data.removed_subspaces)}]

\* edit_handler::run as a function: the edits one after another, each with
\* its fail point, up to the first failed begin
RECURSIVE edit_handler_writes(_, _, _)
edit_handler_writes(st, edits, fails) ==
    IF edits = <<>> THEN st
    ELSE LET r == edit_transaction(st.properties, st.properties_cache, st.values,
                                   Head(edits), Head(fails))
             next == [properties |-> r.properties,
                      properties_cache |-> r.properties_cache,
                      values |-> r.values]
         IN  IF r.outcome = "begin_failed" THEN next
             ELSE edit_handler_writes(next, Tail(edits), Tail(fails))

\* the tables after the four handlers ran one after another, in the order
\* root_handler::run spawns them
sequential_run(data, fail) ==
    LET sp == space_handler_writes(tbl_spaces, data, fail.space)
        ed == edit_handler_writes(
                  [properties |-> properties, properties_cache |-> properties_cache,
                   values |-> values], data.edits, fail.edits)
        me == membership_handler_writes(tbl_members, tbl_editors, data, sp.spaces,
                                        fail.membership)
        su == subspace_handler_writes(tbl_subspaces, data, sp.spaces, fail.subspace)
    IN  [spaces |-> sp.spaces, members |-> me.members, editors |-> me.editors,
         subspaces |-> su.subspaces, properties |-> ed.properties,
         values |-> ed.values]

\* a result that is taken for Ok whatever the task returned
handle_task_result_ignore(result) == "Ok"

\* block_handler::utils::handle_task_result: the error of the task, if any
handle_task_result(result) == result

\* root_handler::run up to tokio::join!: the four tasks are spawned
root_handler_run(data, fail) ==
    /\ b_pc = "idle"
    /\ run_state # "running"
    /\ b_pc' = "running"
    /\ b_data' = data
    /\ b_fail' = fail
    /\ b_task' = [h \in Handlers |-> "spawned"]
    /\ b_order' = <<>>
    /\ b_result' = None
    /\ b_number' = b_number + 1
    /\ b_expect' = sequential_run(data, fail)
    /\ run_state' = "running"
    /\ edits_left' = Len(data.edits)
    /\ edit_outcome' = None
    /\ edit_error' = None
    /\ edit_begun' = FALSE
    /\ edit_issued' = <<>>
    /\ values_to_validate' = <<>>
    /\ validated_created_values' = <<>>
    /\ UNCHANGED <<properties, properties_cache, values, relations, cur_edit>>
    /\ UNCHANGED <<tbl_spaces, tbl_members, tbl_editors, tbl_subspaces, b_cursor>>
    /\ UNCHANGED <<rvars, pvars, qvars, svars>>

\* a loop that takes the edits of the block from the end of the list
next_edit_from_end == b_data.edits[edits_left]

\* the edit of the block the loop of edit_handler::run takes next, and its
\* fail point
next_edit == b_data.edits[Len(b_data.edits) - edits_left + 1]
next_fail == b_fail.edits[Len(b_data.edits) - edits_left + 1]

space_handler_run ==
    /\ b_pc = "running"
    /\ b_task["space"] = "spawned"
    /\ LET w == space_handler_writes(tbl_spaces, b_data, b_fail.space)
       IN  /\ tbl_spaces' = w.spaces
           /\ b_task' = [b_task EXCEPT !["space"] = w.result]
    /\ b_order' = Append(b_order, "space")
    /\ UNCHANGED <<tbl_members, tbl_editors, tbl_subspaces, b_data, b_fail, b_pc,
                   b_result, b_cursor, b_number, b_expect>>
    /\ UNCHANGED <<evars, rvars, pvars, qvars, svars>>

membership_handler_run ==
    /\ b_pc = "running"
    /\ b_task["membership"] = "spawned"
    /\ LET w == membership_handler_writes(tbl_members, tbl_editors, b_data,
                                          tbl_spaces, b_fail.membership)
       IN  /\ tbl_members' = w.members
           /\ tbl_editors' = w.editors
           /\ b_task' = [b_task EXCEPT !["membership"] = w.result]
    /\ b_order' = Append(b_order, "membership")
    /\ UNCHANGED <<tbl_spaces, tbl_subspaces, b_data, b_fail, b_pc, b_result,
                   b_cursor, b_number, b_expect>>
    /\ UNCHANGED <<evars, rvars, pvars, qvars, svars>>

subspace_handler_run ==
    /\ b_pc = "running"
    /\ b_task["subspace"] = "spawned"
    /\ LET w == subspace_handler_writes(tbl_subspaces, b_data, tbl_spaces, b_fail.subspace)
       IN  /\ tbl_subspaces' = w.subspaces
           /\ b_task' = [b_task EXCEPT !["subspace"] = w.result]
    /\ b_order' = Append(b_order, "subspace")
    /\ UNCHANGED <<tbl_spaces, tbl_members, tbl_editors, b_data, b_fail, b_pc,
                   b_result, b_cursor, b_number, b_expect>>
    /\ UNCHANGED <<evars, rvars, pvars, qvars, svars>>

\* root_handler::run from tokio::join! on: all four tasks have finished;
\* the first error among their results, in the order space, edit,
\* membership, subspace, is returned
root_handler_join ==
    /\ b_pc = "running"
    /\ \A h \in Handlers : b_task[h] # "spawned"
    /\ run_state \in {"Ok", "Err"}
    /\ b_pc' = "returned"
    /\ b_result' =
           IF \/ handle_task_result(b_task["space"]) = "Err"
              \/ handle_task_result(run_state) = "Err"
              \/ handle_task_result(b_task["membership"]) = "Err"
              \/ handle_task_result(b_task["subspace"]) = "Err"
           THEN "Err" ELSE "Ok"
    /\ UNCHANGED <<tbl_spaces, tbl_members, tbl_editors, tbl_subspaces, b_data,
                   b_fail, b_task, b_cursor, b_number, b_expect, b_order>>
    /\ UNCHANGED <<evars, rvars, pvars, qvars, svars>>

\* the sink of the indexer: the cursor of a block is persisted when its
\* processing returned Ok; the data of the block is dropped
indexer_persist_cursor ==
    /\ b_pc = "returned"
    /\ b_pc' = "idle"
    /\ b_cursor' = IF b_result = "Ok" THEN b_cursor + 1 ELSE b_cursor
    /\ b_data' = NoBlockData
    /\ b_fail' = NoFailures
    /\ b_expect' = [spaces |-> {}, members |-> EmptyBag, editors |-> EmptyBag,
                    subspaces |-> {}, properties |-> {}, values |-> {}]
    /\ UNCHANGED <<tbl_spaces, tbl_members, tbl_editors, tbl_subspaces,
                   b_task, b_result, b_number, b_order>>
    /\ UNCHANGED <<evars, rvars, pvars, qvars, svars>>

InitBlockVars ==
    /\ tbl_spaces = {}
    /\ tbl_members = EmptyBag
    /\ tbl_editors = EmptyBag
    /\ tbl_subspaces = {}
    /\ b_data = NoBlockData
    /\ b_fail = NoFailures
    /\ b_task = [h \in Handlers |-> "Ok"]
    /\ b_pc = "idle"
    /\ b_result = None
    /\ b_cursor = 0
    /\ b_number = 0
    /\ b_expect = [spaces |-> {}, members |-> EmptyBag, editors |-> EmptyBag,
                   subspaces |-> {}, properties |-> {}, values |-> {}]
    /\ b_order = <<>>

vars == <<evars, rvars, pvars, qvars, svars, bvars>>

EmptyProperties == [p \in PropIds |-> None]

\* ------------------------------------ specification: property edits
PropertyOps == {CreateProperty(p, dt) : p \in PropIds, dt \in OpDataTypes}

PropertyEdits ==
    {PreprocessedEdit(ops, FALSE, "S1") : ops \in SeqsUpTo(PropertyOps, MaxOps)}
        \cup {PreprocessedEdit(<<>>, TRUE, "S1")}

InitProperties ==
    /\ properties = EmptyProperties
    /\ properties_cache = EmptyProperties
    /\ values = {}
    /\ InitEditVars
    /\ InitResolverVars
    /\ InitPreprocessVars
    /\ InitProposalVars
    /\ InitSpaceVars
    /\ InitBlockVars

NextProperties ==
    \/ \E n \in 0..MaxEdits : edit_handler_call(n)
    \/ /\ cur_edit = NoEdit
       /\ run_state = "running"
       /\ edits_left > 0
       /\ \E pe \in PropertyEdits, fail \in FailPoints : edit_handler_run(pe, fail)
    \/ edit_handler_next
    \/ edit_handler_return

SpecProperties == InitProperties /\ [][NextProperties]_vars

\* the data type of the last CreateProperty op for id p in ops, None if none
LastCreated(ops, p) ==
    LET idx == {i \in 1..Len(ops) : ops[i].op = "CreateProperty" /\ ops[i].id = p}
    IN  IF idx = {} THEN None
        ELSE ops[CHOOSE i \in idx : \A j \in idx : j <= i].data_type

\* C1: once a property id has a stored data_type, no later edit changes it,
\* whatever CreateProperty ops the edit carries for the id
C1_DataTypeWriteOnce ==
    [][\A p \in PropIds : properties[p] # None => properties'[p] = properties[p]]_vars

\* C1 witness: a committed edit whose CreateProperty ops for P all carry a
\* type other than the stored one
C1_Witness ==
    /\ edit_outcome = "committed"
    /\ properties["P"] # None
    /\ LastCreated(unwrap(cur_edit).ops, "P") # None
    /\ \A i \in 1..Len(unwrap(cur_edit).ops) :
           unwrap(cur_edit).ops[i].id = "P" => unwrap(cur_edit).ops[i].data_type # properties["P"]

\* C2: after a committed edit, a property id that had no stored row before
\* has, in the cache and in storage, the data_type of the edit's last
\* CreateProperty op for that id
C2_SquashLastWins ==
    [][edit_outcome' = "committed" =>
         \A p \in PropIds :
            LET last == LastCreated(unwrap(cur_edit').ops, p)
            IN  (properties[p] = None /\ last # None) =>
                    (properties'[p] = last /\ properties_cache'[p] = last)]_vars

\* C2 witness: a committed edit with CreateProperty ops of two different
\* types for P and one for Q, P stored with the type of the last
C2_Witness ==
    /\ edit_outcome = "committed"
    /\ \E i, j \in 1..Len(unwrap(cur_edit).ops) :
          /\ i < j
          /\ unwrap(cur_edit).ops[i].id = "P" /\ unwrap(cur_edit).ops[j].id = "P"
          /\ unwrap(cur_edit).ops[i].data_type # unwrap(cur_edit).ops[j].data_type
          /\ properties["P"] = unwrap(cur_edit).ops[j].data_type
          /\ properties_cache["P"] = unwrap(cur_edit).ops[j].data_type
    /\ LastCreated(unwrap(cur_edit).ops, "Q") # None
    /\ properties["Q"] = LastCreated(unwrap(cur_edit).ops, "Q")
    /\ properties["Q"] # properties["P"]

\* --------------------------------------- specification: value edits
\* the (entity, property) pairs the generated value ops address
ValuePairs == {<<"E1", "P">>, <<"E1", "Q">>, <<"E2", "P">>}

ValueEditOps ==
    {UpdateEntity(t[1], t[2], v) : t \in ValuePairs, v \in ValueStrings}
        \cup {UnsetEntityValues(t[1], t[2]) : t \in ValuePairs}

ValueEdits ==
    {PreprocessedEdit(ops, FALSE, "S1") : ops \in SeqsUpTo(ValueEditOps, MaxOps)}
        \cup {PreprocessedEdit(<<>>, TRUE, "S1")}

\* the properties table the indexer starts with, the cache hydrated from it
HydratedProperties == [p \in PropIds |-> IF p = "P" THEN "Number" ELSE "String"]

InitValues ==
    /\ properties = HydratedProperties
    /\ properties_cache = HydratedProperties
    /\ values = {}
    /\ InitEditVars
    /\ InitResolverVars
    /\ InitPreprocessVars
    /\ InitProposalVars
    /\ InitSpaceVars
    /\ InitBlockVars

\* blocks of one edit whose transaction goes through; failing transactions
\* are the subject of SpecEditErrors
NextValues ==
    \/ edit_handler_call(1)
    \/ /\ cur_edit = NoEdit
       /\ run_state = "running"
       /\ edits_left > 0
       /\ \E pe \in ValueEdits : edit_handler_run(pe, "none")
    \/ edit_handler_next
    \/ edit_handler_return

SpecValues == InitValues /\ [][NextValues]_vars

HasRow(e, p, s) ==
    \E r \in values : r.entity_id = e /\ r.property_id = p /\ r.space_id = s

\* the indices of the ops of kind k on (e, p)
OpsOn(ops, k, e, p) ==
    {i \in 1..Len(ops) : ops[i].op = k /\ ops[i].id = e /\ ops[i].property = p}

\* the index of the last SET or UNSET op on (e, p), 0 if there is none
LastValueOp(ops, e, p) ==
    LET idx == OpsOn(ops, "UpdateEntity", e, p) \cup OpsOn(ops, "UnsetEntityValues", e, p)
    IN  IF idx = {} THEN 0 ELSE CHOOSE i \in idx : \A j \in idx : j <= i

\* op i is a SET whose value string is valid for the cached type of its property
ValidSet(ops, i) ==
    /\ ops[i].op = "UpdateEntity"
    /\ HasTypedField(populate_value_fields_by_datatype(
           ops[i].value, properties_cache[ops[i].property]))

\* C3: after a committed edit, a triple the edit SET and then UNSET has no
\* row, and every triple it SET with a valid value and did not UNSET has one
C3_SetThenUnsetLeavesNoRow ==
    edit_outcome = "committed" =>
        LET ops == unwrap(cur_edit).ops
            s == cur_edit.space_id
        IN  \A e \in EntityIds, p \in PropIds :
               /\ ( /\ OpsOn(ops, "UpdateEntity", e, p) # {}
                    /\ LastValueOp(ops, e, p) \in OpsOn(ops, "UnsetEntityValues", e, p) )
                      => ~HasRow(e, p, s)
               /\ ( /\ \E i \in OpsOn(ops, "UpdateEntity", e, p) : ValidSet(ops, i)
                    /\ OpsOn(ops, "UnsetEntityValues", e, p) = {} )
                      => HasRow(e, p, s)

\* C3 witness: a committed edit that SET (E1, P), UNSET it, and SET (E1, Q)
C3_Witness ==
    /\ edit_outcome = "committed"
    /\ unwrap(cur_edit).ops =
           <<UpdateEntity("E1", "P", "1"), UpdateEntity("E1", "Q", "x"),
             UnsetEntityValues("E1", "P")>>
    /\ ~HasRow("E1", "P", "S1")
    /\ HasRow("E1", "Q", "S1")

\* C4: after a committed edit, for every triple the edit addresses: the row
\* exists if the last op on the triple is a valid SET (also after an earlier
\* UNSET), and does not exist if the last op on it is an UNSET
C4_RowIffSetWithoutLaterUnset ==
    edit_outcome = "committed" =>
        LET ops == unwrap(cur_edit).ops
            s == cur_edit.space_id
        IN  \A e \in EntityIds, p \in PropIds :
               LET last == LastValueOp(ops, e, p)
               IN  last # 0 =>
                     /\ ValidSet(ops, last) => HasRow(e, p, s)
                     /\ ops[last].op = "UnsetEntityValues" => ~HasRow(e, p, s)

\* ------------------------------------ specification: content resolver
InitResolver ==
    /\ InitResolverVars
    /\ InitPreprocessVars
    /\ InitProposalVars
    /\ InitSpaceVars
    /\ InitBlockVars
    /\ properties = EmptyProperties
    /\ properties_cache = EmptyProperties
    /\ values = {}
    /\ InitEditVars

NextResolver ==
    \/ stream_start
    \/ /\ r_pc = "wait"
       /\ \E geo \in GeoOutputs : stream_deliver(geo)
    \/ process_block_scoped_data
    \/ sink_persist_cursor
    \/ \E t \in tasks, db_ok \in BOOLEAN : process_edit_event_has(t, db_ok)
    \/ \E t \in tasks, fetched \in BOOLEAN : process_edit_event_fetch(t, fetched)
    \/ \E t \in tasks, db_ok \in BOOLEAN : process_edit_event_put(t, db_ok)
    \/ resolver_crash

SpecResolver == InitResolver /\ [][NextResolver]_vars

RowCount(uri) == Cardinality({i \in 1..Len(ipfs_cache) : ipfs_cache[i].uri = uri})

\* the resolver has nothing left to do: every block is processed and
\* persisted, no task is running
ResolverQuiescent ==
    /\ r_pc = "wait"
    /\ r_next > LastBlock
    /\ tasks = {}

\* C5: once the resolver has processed the chain and all its tasks have
\* ended, every URI referenced by a non-blocklisted event has a cache row
C5_EveryUriGetsRow ==
    ResolverQuiescent => \A u \in referenced : has(ipfs_cache, u)

\* C6: the cache never holds two rows for one URI
C6_OneRowPerUri == \A u \in ContentUris : RowCount(u) <= 1

\* C6 witness: two tasks of one URI both passed the check, one wrote the
\* row and the write of the other was rejected
C6_Witness ==
    /\ put_log.result = "unique_violation"
    /\ RowCount(put_log.uri) = 1

InitPreprocess ==
    /\ InitResolverVars
    /\ InitPreprocessVars
    /\ InitProposalVars
    /\ InitSpaceVars
    /\ InitBlockVars
    /\ properties = EmptyProperties
    /\ properties_cache = EmptyProperties
    /\ values = {}
    /\ InitEditVars

PreprocessSteps ==
    \/ \E i \in 1..Len(pp_handles), db_ok \in BOOLEAN : cache_get_attempt(i, db_ok)
    \/ \E i \in 1..Len(pp_handles) : retry_delay_elapsed(i)
    \/ preprocess_join

NextPreprocess ==
    \/ /\ pp_pc = "idle"
       /\ \E geo \in GeoOutputs : preprocess_block_scoped_data(geo)
    \/ PreprocessSteps
    \/ preprocess_return
    \/ \E uri \in ContentUris, fetched \in BOOLEAN : resolver_put(uri, fetched)

SpecPreprocess == InitPreprocess /\ [][NextPreprocess]_vars

\* the tasks of a block run on: every attempt, delay and the join are
\* scheduled; the resolver owes the indexer nothing
FairSpecPreprocess ==
    InitPreprocess /\ [][NextPreprocess]_vars /\ WF_vars(PreprocessSteps)

UrisOf(geo) == {all_content_uris(geo)[i] : i \in 1..Len(all_content_uris(geo))}

Occurrences(geo, u) ==
    Cardinality({i \in 1..Len(all_content_uris(geo)) : all_content_uris(geo)[i] = u})

HandlesOf(u) == {i \in 1..Len(pp_handles) : pp_handles[i].uri = u}

\* C7: when preprocessing of a block has fetched, every URI of the block,
\* however often it occurs, had exactly one read task, the cache was called
\* once plus once per failed attempt of that task, and the fetched map has
\* its entry
C7_OneFetchTaskPerUri ==
    pp_pc = "done" =>
        \A u \in UrisOf(pp_geo) :
            /\ Cardinality(HandlesOf(u)) = 1
            /\ \A i \in HandlesOf(u) : request_counts[u] = pp_handles[i].retries + 1
            /\ u \in DOMAIN cache_map

\* C7 witness: a URI that occurs twice in the block, fetched by a task
\* whose first attempt failed
C7_Witness ==
    /\ pp_pc = "done"
    /\ \E u \in UrisOf(pp_geo) :
          /\ Occurrences(pp_geo, u) = 2
          /\ request_counts[u] = 2
          /\ u \in DOMAIN cache_map

\* C7 as stated: every URI of the block yields exactly one call of the
\* cache and has its entry in the fetched map
C7_ExactlyOneFetchCall ==
    pp_pc = "done" =>
        \A u \in UrisOf(pp_geo) : request_counts[u] = 1 /\ u \in DOMAIN cache_map

\* C8: preprocessing of a block terminates also while a URI of the block
\* has no cache row: once the reads are spawned, either the KgData is built
\* or every URI of the block has obtained its row
C8_PreprocessTerminates ==
    (pp_pc = "fetching") ~>
        (pp_pc = "done" \/ \A u \in UrisOf(pp_geo) : has(ipfs_cache, u))

\* C9: the KgData handed to the handlers holds no proposal created by a
\* blocklisted DAO and no more edits than non-blocklisted DAOs published
C9_NoBlocklistedPassed ==
    pp_pc = "done" =>
        /\ \A i \in 1..Len(kg_data.created_proposals) :
              kg_data.created_proposals[i].dao_address \notin Blocklist
        /\ Len(kg_data.edits) <= Len(non_blocklisted_edits_published(pp_geo))

\* ------------------------------------ specification: proposals
InitProposals ==
    /\ InitResolverVars
    /\ InitPreprocessVars
    /\ InitProposalVars
    /\ InitSpaceVars
    /\ InitBlockVars
    /\ properties = EmptyProperties
    /\ properties_cache = EmptyProperties
    /\ values = {}
    /\ InitEditVars

ProposalCreateds ==
    {ProposalCreated("PublishEdit", pid, "dao1", "u1", e) :
        pid \in ProposalIds, e \in {<<>>, <<"e1">>}}
    \cup {ProposalCreated("AddMember", pid, "dao1", None, <<>>) : pid \in ProposalIds}

ExecutedProposals == {ExecutedProposal(pid) : pid \in ProposalIds}

\* where the transaction of proposal_handler::run can fail whatever the
\* block holds: nowhere, at begin, at commit
ProposalFailPoints == {"none", "begin", "commit"}

NextProposals ==
    \/ \E created \in SeqsUpTo(ProposalCreateds, MaxProposals),
          executed \in SeqsUpTo(ExecutedProposals, MaxProposals),
          fail \in ProposalFailPoints :
          \E fresh \in [1..Len(created) -> FreshUuids] :
              proposal_block(created, executed, fresh, fail)
    \/ /\ q_runs >= 1
       /\ \E fail \in ProposalFailPoints :
             \E fresh \in [1..Len(q_block.created) -> FreshUuids] :
                 proposal_block_replay(fresh, fail)

SpecProposals == InitProposals /\ [][NextProposals]_vars

\* C11: a block applied again leaves the proposals table as its first
\* application left it, the ids of its proposal rows included
C11_ReplaySameState ==
    (q_runs >= 2 /\ q_outcome = "Ok") => proposals = q_first


\* ------------------------------------------- edit handler, error handling
\* the ops of the edits whose transaction may fail: a property creation and
\* the writes and deletes of the values of one entity
ErrorEditOps ==
    {CreateProperty("Q", "Number"), UpdateEntity("E1", "Q", "x"),
     UpdateEntity("E1", "P", "1"), UnsetEntityValues("E1", "P")}

ErrorEdits ==
    {PreprocessedEdit(ops, FALSE, "S1") : ops \in SeqsUpTo(ErrorEditOps, MaxFailedOps)}
        \cup {PreprocessedEdit(<<>>, TRUE, "S1")}

\* blocks of up to MaxEdits edits, each of which can fail at any point
NextEditErrors ==
    \/ \E n \in 0..MaxEdits : edit_handler_call(n)
    \/ /\ cur_edit = NoEdit
       /\ run_state = "running"
       /\ edits_left > 0
       /\ \E pe \in ErrorEdits, fail \in FailPoints : edit_handler_run(pe, fail)
    \/ edit_handler_next
    \/ edit_handler_return

\* the indexer starts with property P in the table and in the cache; Q is
\* created by the edits
InitEditErrors ==
    /\ properties = [HydratedProperties EXCEPT !["Q"] = None]
    /\ properties_cache = properties
    /\ values = {}
    /\ InitEditVars
    /\ InitResolverVars
    /\ InitPreprocessVars
    /\ InitProposalVars
    /\ InitSpaceVars
    /\ InitBlockVars

SpecEditErrors == InitEditErrors /\ [][NextEditErrors]_vars


C13_RunAlwaysSucceeds ==
    run_state \in {"Ok", "Err"} => (run_state = "Ok" /\ edits_left = 0)

\* ------------------------ specification: preprocessing of spaces, members
SpaceEventInputs ==
    {SpaceEvents(sc, gp, pp, ea, ma) :
        sc \in SeqsUpTo({GeoSpaceCreated(d) : d \in SpaceDaos}, MaxSpaceEvents),
        gp \in SeqsUpTo({GeoGovernancePluginCreated(d, v) :
                            d \in SpaceDaos, v \in VotingAddresses}, MaxSpaceEvents),
        pp \in SeqsUpTo({GeoPersonalSpaceAdminPluginCreated(d) : d \in SpaceDaos}, 1),
        ea \in SeqsUpTo({EditorAdded(d, a) : d \in SpaceDaos, a \in MemberAddresses},
                        MaxSpaceEvents),
        ma \in SeqsUpTo({MemberAdded(d, a) : d \in SpaceDaos, a \in MemberAddresses}, 1)}

InitSpaces ==
    /\ InitResolverVars
    /\ InitPreprocessVars
    /\ InitProposalVars
    /\ InitBlockVars
    /\ properties = EmptyProperties
    /\ properties_cache = EmptyProperties
    /\ values = {}
    /\ InitEditVars
    /\ sp_geo \in SpaceEventInputs
    /\ sp_pc = "input"
    /\ sp_out = NoSpaceOutput

NextSpaces == preprocess_spaces_and_members

SpecSpaces == InitSpaces /\ [][NextSpaces]_vars

\* whether some plugin of the list has the DAO address
HasPlugin(plugins, dao) ==
    \E i \in 1..Len(plugins) : plugins[i].dao_address = dao

\* the indices of the created-space events that have a plugin in the block
Matched(geo) ==
    {i \in 1..Len(geo.spaces_created) :
        \/ HasPlugin(geo.governance_plugins_created, geo.spaces_created[i].dao_address)
        \/ HasPlugin(geo.personal_plugins_created, geo.spaces_created[i].dao_address)}

\* the k-th smallest element of a set of indices
Nth(idx, k) == CHOOSE i \in idx : Cardinality({j \in idx : j <= i}) = k

\* C16: the added members are the MemberAdded events plus one AddedMember
\* for every EditorAdded event whose DAO address is that of a space
\* emitted for the block, and nothing else
C16_InitialMembersPromoted ==
    sp_pc = "done" =>
        LET created == {sp_out.spaces[i].dao_address : i \in 1..Len(sp_out.spaces)}
            Count(seq, x) == Cardinality({i \in 1..Len(seq) : seq[i] = x})
        IN  \A d \in SpaceDaos, a \in MemberAddresses :
               Count(sp_out.added_members, AddedMember(d, a)) =
                   Count(sp_geo.members_added, MemberAdded(d, a))
                   + (IF d \in created
                      THEN Count(sp_geo.editors_added, EditorAdded(d, a))
                      ELSE 0)

\* C16 witness: dao1 has a space created in the block and dao2 has not;
\* the editor of dao1 became a member next to the explicit member, the
\* editor of dao2 did not
C16_Witness ==
    /\ sp_pc = "done"
    /\ sp_geo.editors_added = <<EditorAdded("dao1", "a1"), EditorAdded("dao2", "a1")>>
    /\ sp_geo.members_added = <<MemberAdded("dao1", "a1")>>
    /\ Len(sp_out.spaces) = 1
    /\ sp_out.spaces[1].dao_address = "dao1"
    /\ sp_out.added_members = <<AddedMember("dao1", "a1"), AddedMember("dao1", "a1")>>

\* C17: the output holds one record for every created-space event that has
\* a plugin in the block, in input order: Public with the addresses of a
\* governance plugin of the same DAO if there is one, otherwise Personal
\* with the address of a personal plugin of the same DAO
C17_PublicBeforePersonal ==
    sp_pc = "done" =>
        LET idx == Matched(sp_geo)
            out == sp_out.spaces
        IN  /\ Len(out) = Cardinality(idx)
            /\ \A k \in 1..Len(out) :
                  LET space == sp_geo.spaces_created[Nth(idx, k)]
                      gov == sp_geo.governance_plugins_created
                      per == sp_geo.personal_plugins_created
                  IN  /\ out[k].dao_address = space.dao_address
                      /\ out[k].space_address = space.space_address
                      /\ IF HasPlugin(gov, space.dao_address)
                         THEN /\ out[k].type = "Public"
                              /\ \E i \in 1..Len(gov) :
                                    /\ gov[i].dao_address = space.dao_address
                                    /\ out[k].governance_plugin = gov[i].main_voting_address
                                    /\ out[k].membership_plugin = gov[i].member_access_address
                         ELSE /\ out[k].type = "Personal"
                              /\ \E i \in 1..Len(per) :
                                    /\ per[i].dao_address = space.dao_address
                                    /\ out[k].personal_plugin = per[i].personal_admin_address

\* C17 witness: dao2 without plugin and dao1 with both kinds of plugin
\* give the single record Public(dao1)
C17_Witness ==
    /\ sp_pc = "done"
    /\ sp_geo.spaces_created = <<GeoSpaceCreated("dao2"), GeoSpaceCreated("dao1")>>
    /\ sp_geo.governance_plugins_created = <<GeoGovernancePluginCreated("dao1", "v1")>>
    /\ sp_geo.personal_plugins_created = <<GeoPersonalSpaceAdminPluginCreated("dao1")>>
    /\ Len(sp_out.spaces) = 1
    /\ sp_out.spaces[1].type = "Public"
    /\ sp_out.spaces[1].governance_plugin = "v1"

\* ----------------------------------- specification: the handlers of a block
InitRoot ==
    /\ properties = HydratedProperties
    /\ properties_cache = HydratedProperties
    /\ values = {}
    /\ InitEditVars
    /\ InitResolverVars
    /\ InitPreprocessVars
    /\ InitProposalVars
    /\ InitSpaceVars
    /\ InitBlockVars

RootEdits == {PreprocessedEdit(<<UpdateEntity("E1", "Q", "x")>>, FALSE, "S1")}

\* at most one of the space, membership and subspace transactions fails
RootFailures ==
    {Failures(h = "space", h = "membership", h = "subspace", <<>>) :
        h \in Handlers \cup {None}}

CreatedSpaceOf(dao) ==
    PublicSpace(GeoSpaceCreated(dao), GeoGovernancePluginCreated(dao, "v1"))

RootBlocks ==
    {KgData(sc, am, <<>>, <<>>, <<>>, asub, <<>>, ed) :
        sc \in {<<>>, <<CreatedSpaceOf("dao1"), CreatedSpaceOf("dao2")>>},
        am \in SeqsUpTo({AddedMember("dao1", "a1")}, 1),
        asub \in SeqsUpTo({AddedSubspace("dao1", "dao2")}, 1),
        ed \in SeqsUpTo(RootEdits, MaxEdits)}

\* the steps of the four tasks and of root_handler::run after the spawn
BlockSteps ==
    \/ space_handler_run
    \/ membership_handler_run
    \/ subspace_handler_run
    \/ /\ b_pc = "running"
       /\ cur_edit = NoEdit
       /\ run_state = "running"
       /\ edits_left > 0
       /\ edit_handler_run(next_edit, next_fail)
    \/ edit_handler_next
    \/ edit_handler_return
    \/ root_handler_join
    \/ indexer_persist_cursor

NextRoot ==
    \/ /\ b_number < MaxRootBlocks
       /\ b_pc = "idle"
       /\ \E data \in RootBlocks, f \in RootFailures :
             \E ef \in [1..Len(data.edits) -> {"none", "begin"}] :
                 root_handler_run(data, [f EXCEPT !.edits = ef])
    \/ BlockSteps

SpecRoot == InitRoot /\ [][NextRoot]_vars

\* the tasks of the block have all finished
AllFinished ==
    /\ \A h \in Handlers : b_task[h] \in {"Ok", "Err"}
    /\ run_state \in {"Ok", "Err"}

SomeFailed ==
    \/ \E h \in Handlers : b_task[h] = "Err"
    \/ run_state = "Err"

\* C14: root_handler::run returns when all four tasks have finished; it
\* returns an error exactly if one of them failed; the tables of the
\* handlers that succeeded hold their writes; the cursor of the block is
\* persisted exactly if run returned Ok
C14_FailedBlockKeepsOtherWrites ==
    [][ /\ (b_pc = "running" /\ b_pc' = "returned") =>
              /\ AllFinished
              /\ (b_result' = "Err") <=> SomeFailed
              /\ b_task["space"] = "Ok" => tbl_spaces' = b_expect.spaces
              /\ b_task["membership"] = "Ok" =>
                     (tbl_members' = b_expect.members /\ tbl_editors' = b_expect.editors)
              /\ b_task["subspace"] = "Ok" => tbl_subspaces' = b_expect.subspaces
              /\ values' = b_expect.values
        /\ (b_pc = "returned" /\ b_pc' = "idle") =>
              /\ (b_cursor' = b_cursor) <=> (b_result = "Err")
              /\ UNCHANGED <<tbl_spaces, tbl_members, tbl_editors, tbl_subspaces,
                             properties, values>>
      ]_vars

\* C14 witness: the membership transaction failed first, the other three
\* tasks still ran and committed, run returned an error and the cursor
\* stayed where it was
C14_Witness ==
    /\ b_pc = "idle"
    /\ b_number = 1
    /\ b_result = "Err"
    /\ b_cursor = 0
    /\ b_order = <<"membership", "space", "subspace">>
    /\ b_task["membership"] = "Err"
    /\ tbl_members = EmptyBag
    /\ tbl_spaces # {}
    /\ tbl_subspaces # {}
    /\ values # {}

\* C15: when root_handler::run returns, every table is as if the four
\* handlers had run one after another in spawn order, whatever the order
\* in which their transactions were in fact applied
C15_InterleavingIndependent ==
    b_pc = "returned" =>
        /\ tbl_spaces = b_expect.spaces
        /\ tbl_members = b_expect.members
        /\ tbl_editors = b_expect.editors
        /\ tbl_subspaces = b_expect.subspaces
        /\ properties = b_expect.properties
        /\ values = b_expect.values

\* ----------------------------------- specification: membership in a block
MemberEvents == {AddedMember("dao1", a) : a \in {"a1", "a2"}}
EditorEvents == {AddedMember("dao1", "a1")}

MembershipBlocks ==
    {KgData(<<>>, am, rm, ae, re, <<>>, <<>>, <<>>) :
        am \in SeqsUpTo(MemberEvents, MaxMemberEvents),
        rm \in SeqsUpTo(MemberEvents, 1),
        ae \in SeqsUpTo(EditorEvents, MaxMemberEvents),
        re \in SeqsUpTo(EditorEvents, 1)}

NextMembership ==
    \/ /\ b_number < MaxBlocks
       /\ b_pc = "idle"
       /\ \E data \in MembershipBlocks, me \in BOOLEAN :
             root_handler_run(data, Failures(FALSE, me, FALSE, <<>>))
    \/ space_handler_run
    \/ membership_handler_run
    \/ subspace_handler_run
    \/ edit_handler_return
    \/ root_handler_join
    \/ indexer_persist_cursor

SpecMembership == InitRoot /\ [][NextMembership]_vars

RowsOf(events) == {MemberRow(events[i]) : i \in 1..Len(events)}

\* additions before removals on one table
AddThenRemove(table, added, removed) ==
    \A row \in RowsOf(added) \cup RowsOf(removed) :
        IF row \in RowsOf(removed)
        THEN ~BagIn(row, table)
        ELSE BagIn(row, table)

\* C18: after the membership transaction of a block committed, an address
\* the block removes is absent, also if the block adds it as well, and an
\* address the block only adds is present; members and editors alike
C18_AdditionsBeforeRemovals ==
    (b_pc = "returned" /\ b_task["membership"] = "Ok") =>
        /\ AddThenRemove(tbl_members, b_data.added_members, b_data.removed_members)
        /\ AddThenRemove(tbl_editors, b_data.added_editors, b_data.removed_editors)

\* C18 witness: a1 and a2 are added and a1 is removed in one block; a2 is a
\* member and a1 is not
C18_Witness ==
    /\ b_pc = "returned"
    /\ b_task["membership"] = "Ok"
    /\ b_data.added_members = <<AddedMember("dao1", "a1"), AddedMember("dao1", "a2")>>
    /\ b_data.removed_members = <<AddedMember("dao1", "a1")>>
    /\ ~BagIn(MemberRow(AddedMember("dao1", "a1")), tbl_members)
    /\ BagIn(MemberRow(AddedMember("dao1", "a2")), tbl_members)

\* the membership task finishes in this step, with no failure of the database
MembershipStep ==
    /\ b_task["membership"] = "spawned"
    /\ b_task'["membership"] # "spawned"
    /\ ~b_fail.membership

\* one table before and after an idempotent transaction
Idempotent(before, after, added, removed) ==
    \A row \in {MemberRow(m) : m \in MemberEvents} :
        /\ CopiesIn(row, after) <= 1
        /\ (row \in RowsOf(added) /\ row \notin RowsOf(removed))
               => CopiesIn(row, after) = 1
        /\ (row \notin RowsOf(added) /\ ~BagIn(row, before))
               => CopiesIn(row, after) = 0
        /\ (row \notin RowsOf(added) /\ row \notin RowsOf(removed))
               => CopiesIn(row, after) = CopiesIn(row, before)

\* C19: a membership transaction the database does not fail returns Ok
\* also when it adds a row twice, adds a row that exists or removes a row
\* that does not exist; a row added more than once is there once, and a
\* removal of an absent row changes nothing
C19_AddRemoveIdempotent ==
    [][ MembershipStep =>
          /\ b_task'["membership"] = "Ok"
          /\ Idempotent(tbl_members, tbl_members', b_data.added_members,
                        b_data.removed_members)
          /\ Idempotent(tbl_editors, tbl_editors', b_data.added_editors,
                        b_data.removed_editors)
      ]_vars

\* C19 witness: a block adds member (dao1, a1) twice and removes member
\* (dao1, a2), who is not in the table; a1 has one row, the task returned Ok
C19_Witness ==
    /\ b_pc = "returned"
    /\ b_number = 1
    /\ b_task["membership"] = "Ok"
    /\ b_data.added_members = <<AddedMember("dao1", "a1"), AddedMember("dao1", "a1")>>
    /\ b_data.removed_members = <<AddedMember("dao1", "a2")>>
    /\ CopiesIn(MemberRow(AddedMember("dao1", "a1")), tbl_members) = 1
    /\ BagToSet(tbl_members) = {MemberRow(AddedMember("dao1", "a1"))}

\* ------------------------------------------- edit handler, validation
\* the index of the last valid SET on (e, p), 0 if there is none
LastValidSet(ops, e, p) ==
    LET idx == {i \in OpsOn(ops, "UpdateEntity", e, p) : ValidSet(ops, i)}
    IN  IF idx = {} THEN 0 ELSE CHOOSE i \in idx : \A j \in idx : j <= i

RowsOn(e, p, s) ==
    {r \in values : r.entity_id = e /\ r.property_id = p /\ r.space_id = s}

\* C21: in every state each row of the values table has the id derived from
\* its (entity_id, property_id, space_id), and no two rows are on the same
\* triple, whatever contents were SET on it in one edit or in several
C21_OneRowPerTriple ==
    /\ \A r \in values : r.id = derive_value_id(r.entity_id, r.property_id, r.space_id)
    /\ \A e \in EntityIds, p \in PropIds, s \in SpaceIds :
           Cardinality(RowsOn(e, p, s)) <= 1

\* C21 witness: a committed edit SET (E1, Q) to "1" and then to "x"; the
\* triple has the one row of the second SET
C21_Witness ==
    /\ edit_outcome = "committed"
    /\ unwrap(cur_edit).ops =
           <<UpdateEntity("E1", "Q", "1"), UpdateEntity("E1", "Q", "x")>>
    /\ RowsOn("E1", "Q", cur_edit.space_id) =
           {ValueRow(ValueOp("SET", "E1", "Q", cur_edit.space_id,
                             [NoFields EXCEPT !.string = "x"]))}

\* ------------------------------------------- edit handler, errored edits
\* C22: when the edit handler takes an edit whose cache row is errored, no
\* transaction is begun for it and the properties table, the values table
\* and the properties cache stay as they are
C22_ErroredEditNoTransaction ==
    [][ (cur_edit = NoEdit /\ cur_edit' # NoEdit /\ cur_edit'.is_errored)
            => (~edit_begun' /\ UNCHANGED <<properties, properties_cache, values>>) ]_vars

\* ------------------------------- specification: rows of the ipfs cache
\* the first block of the stream, with events of two DAOs and of a
\* blocklisted one, all on one content URI
RowEvents == {Event(d, "u1") : d \in {"dao1", "dao2", "bad"}}

\* blocks of at most MaxRowEvents events in their two lists together
RowGeoOutputs ==
    {g \in {GeoOutput(a, b) : a \in SeqsUpTo(RowEvents, MaxRowEvents),
                              b \in SeqsUpTo(RowEvents, MaxRowEvents)} :
        Len(g.edits_published) + Len(g.edits) <= MaxRowEvents}

NextCacheRows ==
    \/ stream_start
    \/ /\ r_pc = "wait"
       /\ r_next = START_BLOCK
       /\ \E geo \in RowGeoOutputs : stream_deliver(geo)
    \/ process_block_scoped_data
    \/ sink_persist_cursor
    \/ \E t \in tasks, db_ok \in BOOLEAN : process_edit_event_has(t, db_ok)
    \/ \E t \in tasks, fetched \in BOOLEAN : process_edit_event_fetch(t, fetched)
    \/ \E t \in tasks, db_ok \in BOOLEAN : process_edit_event_put(t, db_ok)

SpecCacheRows == InitResolver /\ [][NextCacheRows]_vars

\* the row a step appended to ipfs_cache
NewRow == ipfs_cache'[Len(ipfs_cache')]

\* C23: every row of ipfs_cache is errored exactly if its payload is null,
\* and a row is written with the space id derived from the DAO address of
\* the event whose task wrote it
C23_ErroredIffNoPayload ==
    [][ /\ \A i \in 1..Len(ipfs_cache') :
               ipfs_cache'[i].is_errored <=> (ipfs_cache'[i].json = <<>>)
        /\ (ipfs_cache' # ipfs_cache) =>
               \E t \in tasks \ tasks' :
                   /\ t.pc = "put"
                   /\ NewRow.uri = t.uri
                   /\ NewRow.space = derive_space_id("GEO", t.dao)
      ]_vars

\* C23 witness: the fetch for an event of dao2 failed and its errored row
\* with no payload was written with the space id of dao2
C23_Witness ==
    /\ put_log.result = "ok"
    /\ Len(ipfs_cache) = 1
    /\ ipfs_cache[1].is_errored
    /\ ipfs_cache[1].json = <<>>
    /\ ipfs_cache[1].space = derive_space_id("GEO", "dao2")

\* C24: a row of ipfs_cache stays as it was written, and a task whose check
\* runs when its URI has a row ends without fetching, whether the row is
\* errored or not
C24_ExistingRowNotRefetched ==
    [][ /\ Len(ipfs_cache') >= Len(ipfs_cache)
        /\ \A i \in 1..Len(ipfs_cache) : ipfs_cache'[i] = ipfs_cache[i]
        /\ \A t \in tasks :
               (t.pc = "has" /\ RowCount(t.uri) >= 1) =>
                   \A u \in tasks' : u.id = t.id => u = t
      ]_vars

\* C24 witness: the block has two events of dao1 on u1; the fetch for one
\* failed and its errored row was written, both tasks have ended and the
\* errored row is the only row
C24_Witness ==
    /\ chain_head.geo.edits_published = <<Event("dao1", "u1"), Event("dao1", "u1")>>
    /\ r_pc = "wait"
    /\ tasks = {}
    /\ put_log = [uri |-> "u1", result |-> "ok"]
    /\ Len(ipfs_cache) = 1
    /\ ipfs_cache[1].is_errored

\* ------------------------------- specification: permits of the resolver
\* a block with more events than the semaphore has permits: Permits + 1
\* published edits and one proposed edit of dao1, the first of them on u1
\* and the others on u2
BurstGeoOutput ==
    GeoOutput([i \in 1..(Permits + 1) |-> Event("dao1", IF i = 1 THEN "u1" ELSE "u2")],
              <<Event("dao1", "u2")>>)

\* the task that was spawned first among the running ones
Oldest(t) == \A u \in tasks : u.id[1] > t.id[1] \/ (u.id[1] = t.id[1] /\ u.id[2] >= t.id[2])

\* the tasks take their steps in the order they were spawned; the number of
\* permits in use does not depend on which task takes a step
NextPermits ==
    \/ stream_start
    \/ /\ r_pc = "wait"
       /\ stream_deliver(BurstGeoOutput)
    \/ process_block_scoped_data
    \/ sink_persist_cursor
    \/ \E t \in tasks, db_ok \in BOOLEAN : Oldest(t) /\ process_edit_event_has(t, db_ok)
    \/ \E t \in tasks, fetched \in BOOLEAN : Oldest(t) /\ process_edit_event_fetch(t, fetched)
    \/ \E t \in tasks, db_ok \in BOOLEAN : Oldest(t) /\ process_edit_event_put(t, db_ok)
    \/ resolver_crash

SpecPermits == InitResolver /\ [][NextPermits]_vars

\* C25: the tasks in flight are those that hold a permit, there are never
\* more than Permits = 20 of them, and the loop spawns a task only when a
\* permit is free
C25_AtMostPermitsInFlight ==
    [][ /\ Cardinality(tasks') <= Permits
        /\ permits' = Permits - Cardinality(tasks')
        /\ (\E t \in tasks' : t \notin tasks /\ t.pc = "has") => permits > 0
      ]_vars

\* C25 witness: twenty tasks hold the twenty permits and the loop stands
\* at the twenty-first event of the block
C25_Witness ==
    /\ Cardinality(tasks) = 20
    /\ permits = 0
    /\ r_pc = "process"
    /\ r_idx = 21
    /\ r_idx <= Len(block_events(chain_head.geo))

\* ------------------------- specification: edit ids of created proposals
\* most PublishEdit proposals in geo.edits
MaxCreated == 2

\* lengths of Edit.id in a cached payload
IdLengths == {0, 15, 16, 17}

\* what the map can hold for a URI: errored and not errored, without a
\* decoded edit and with one whose id has any of the lengths
CachedEdits(uri) ==
    {[cid |-> uri, edit |-> e, is_errored |-> err, space_id |-> derive_space_id("GEO", "dao1")] :
        err \in BOOLEAN,
        e \in {<<>>} \cup {<<[id |-> [bytes |-> uri, len |-> n]]>> : n \in IdLengths}}

CacheMaps ==
    UNION {{m \in [S -> UNION {CachedEdits(u) : u \in S}] : \A u \in S : m[u].cid = u} :
               S \in SUBSET ContentUris}

\* preprocess_block_scoped_data from the collected map on: the KgData
preprocess_build_kg_data ==
    /\ pp_pc = "mapping"
    /\ kg_data' = [edits |-> final_edits(pp_geo, cache_map),
                   created_proposals |-> map_created_proposals(pp_geo, cache_map)]
    /\ pp_pc' = "done"
    /\ UNCHANGED <<pp_geo, pp_handles, request_counts, cache_map>>
    /\ UNCHANGED <<evars, rvars, qvars, svars, bvars>>

InitEditIds ==
    /\ InitResolverVars
    /\ InitProposalVars
    /\ InitSpaceVars
    /\ InitBlockVars
    /\ properties = EmptyProperties
    /\ properties_cache = EmptyProperties
    /\ values = {}
    /\ InitEditVars
    /\ pp_geo \in {GeoOutput(<<>>, e) : e \in SeqsUpTo(Events, MaxCreated)}
    /\ cache_map \in CacheMaps
    /\ pp_pc = "mapping"
    /\ pp_handles = <<>>
    /\ request_counts = [u \in ContentUris |-> 0]
    /\ kg_data = NoKgData

NextEditIds == preprocess_build_kg_data

SpecEditIds == InitEditIds /\ [][NextEditIds]_vars

\* the map has a row for the URI that is not errored and carries a decoded
\* edit whose id is 16 bytes long
HasUsableEditId(uri) ==
    /\ uri \in DOMAIN cache_map
    /\ ~cache_map[uri].is_errored
    /\ cache_map[uri].edit # <<>>
    /\ cache_map[uri].edit[1].id.len = 16

\* C26: every PublishEdit proposal of geo.edits is emitted, in order; its
\* edit_id is the UUID of the id bytes of the cached edit exactly if the
\* map has a row for its content_uri that is not errored and carries a
\* decoded edit with a 16 byte id, and None otherwise
C26_EditIdIffUsableCacheRow ==
    pp_pc = "done" =>
        /\ Len(kg_data.created_proposals) = Len(pp_geo.edits)
        /\ \A i \in 1..Len(pp_geo.edits) :
               LET p == pp_geo.edits[i]
                   c == kg_data.created_proposals[i]
               IN  /\ c.type = "PublishEdit"
                   /\ c.content_uri = p.content_uri
                   /\ c.dao_address = p.dao_address
                   /\ c.edit_id = IF HasUsableEditId(p.content_uri)
                                  THEN <<cache_map[p.content_uri].edit[1].id.bytes>>
                                  ELSE <<>>

\* C26 witness: the edit of u1 has an id of 16 bytes and the edit of u2 one
\* of 15; the proposal on u1 has the edit id, the proposal on u2 has None
C26_Witness ==
    /\ pp_pc = "done"
    /\ pp_geo.edits = <<Event("dao1", "u1"), Event("dao1", "u2")>>
    /\ HasUsableEditId("u1")
    /\ "u2" \in DOMAIN cache_map
    /\ ~cache_map["u2"].is_errored
    /\ cache_map["u2"].edit # <<>>
    /\ cache_map["u2"].edit[1].id.len = 15
    /\ kg_data.created_proposals[1].edit_id = <<"u1">>
    /\ kg_data.created_proposals[2].edit_id = <<>>

\* ------------------------------------ specification: rows of proposals
\* the tables an earlier block can have left: empty, or the row of one
\* created proposal
StoredProposals ==
    {proposal_handler_writes({}, c, <<>>, 0, [i \in 1..Len(c) |-> "r1"]) :
        c \in SeqsUpTo(ProposalCreateds, 1)}

InitProposalRows ==
    /\ InitResolverVars
    /\ InitPreprocessVars
    /\ InitSpaceVars
    /\ InitBlockVars
    /\ properties = EmptyProperties
    /\ properties_cache = EmptyProperties
    /\ values = {}
    /\ InitEditVars
    /\ proposals \in StoredProposals
    /\ q_block = NoProposalBlock
    /\ q_number = 0
    /\ q_runs = 0
    /\ q_first = {}
    /\ q_outcome = None

\* one block is applied to the table
NextProposalRows ==
    /\ q_number = 0
    /\ \E created \in SeqsUpTo(ProposalCreateds, MaxProposals),
          executed \in SeqsUpTo(ExecutedProposals, MaxProposals),
          fail \in ProposalFailPoints :
          \E fresh \in [1..Len(created) -> FreshUuids] :
              proposal_block(created, executed, fresh, fail)

SpecProposalRows == InitProposalRows /\ [][NextProposalRows]_vars

\* ------------------------------------------ proposal handler, stored ids
\* the ids the claims allow for the row of a PublishEdit proposal
PublishEditIds(p) ==
    IF p.edit_id # <<>> THEN {p.edit_id[1]}
    ELSE IF p.proposal_id \in UuidStrings THEN {p.proposal_id}
    ELSE FreshUuids

\* the rows the block last applied has written
RowsOfBlock == {r \in proposals : r.created_at_block = q_number}

\* C27: after a block was applied, every PublishEdit proposal of the block
\* has a row whose id is its edit_id if it has one, else its proposal_id
\* if that is a UUID, else a new UUID; a block of one PublishEdit proposal
\* has written no row with another id
C27_PublishEditIdFromEdit ==
    q_outcome = "Ok" =>
        /\ \A i \in 1..Len(q_block.created) :
               q_block.created[i].type = "PublishEdit" =>
                   \E r \in RowsOfBlock : r.id \in PublishEditIds(q_block.created[i])
        /\ (Len(q_block.created) = 1 /\ q_block.created[1].type = "PublishEdit") =>
               \A r \in RowsOfBlock : r.id \in PublishEditIds(q_block.created[1])

\* C27 witness: a PublishEdit proposal whose proposal_id is a UUID and
\* whose edit_id is e1 is stored under e1 and not under its proposal_id
C27_Witness ==
    /\ q_outcome = "Ok"
    /\ q_block.created = <<ProposalCreated("PublishEdit", "uuid-a", "dao1", "u1", <<"e1">>)>>
    /\ {r.id : r \in proposals} = {"e1"}

\* C28: after a block that proposal_handler::run applied, every created
\* proposal of a type other than PublishEdit has a row of that block whose
\* id is derive_proposal_id of its DAO, its proposal id and its plugin.
C28_OtherTypesIdFromMd5 ==
    q_outcome = "Ok" =>
        \A i \in 1..Len(q_block.created) :
            q_block.created[i].type # "PublishEdit" =>
                \E r \in RowsOfBlock :
                    /\ r.proposal_type = q_block.created[i].type
                    /\ r.id = derive_proposal_id(q_block.created[i].dao_address,
                                                 q_block.created[i].proposal_id,
                                                 q_block.created[i].plugin_address)

\* ------------------------------------------------ proposal handler, executed proposals
\* the UUIDs the ProposalExecuted events of a block name
ExecutedIds(executed) ==
    {executed[i].proposal_id : i \in 1..Len(executed)} \cap UuidStrings

\* C29: when proposal_handler::run applies a block, every row whose id is the
\* proposal_id of a ProposalExecuted event of the block, parsed as a UUID, has
\* status executed afterwards; a row no such event names keeps its status
\* unless the block stores it anew, and a block whose ProposalExecuted events
\* all fail to parse and that creates no proposal is applied without an error
\* and leaves the table as it was.
C29_ExecutedByParsedId ==
    [][(q_number' = q_number + 1 /\ q_outcome' = "Ok") =>
        LET ids == ExecutedIds(q_block'.executed)
        IN  /\ \A r \in proposals' : r.id \in ids => r.status = "executed"
            /\ \A r \in proposals' :
                   r.id \notin ids => (r \in proposals \/ r.status = "created")
            /\ \A r \in proposals :
                   r.id \notin ids =>
                       \/ r \in proposals'
                       \/ \E n \in proposals' :
                              n.id = r.id /\ n.created_at_block = q_number'
            /\ (ids = {} /\ q_block'.created = <<>>) => proposals' = proposals]_vars

C29_Witness ==
    /\ q_outcome = "Ok"
    /\ q_block = [created |-> <<>>, executed |-> <<ExecutedProposal("uuid-a")>>]
    /\ \E r \in proposals :
           r.id = "uuid-a" /\ r.status = "executed" /\ r.created_at_block = 0

\* ------------------------------------------------ specification: proposals of a block
\* Blocks that carry proposal events are processed by root_handler::run; the
\* table of proposals holds what an earlier run of the proposal handler may
\* have stored.
RootProposalBlocks ==
    {[KgData(<<>>, <<>>, <<>>, <<>>, <<>>, <<>>, <<>>, ed)
         EXCEPT !.created_proposals = c, !.executed_proposals = e] :
        ed \in SeqsUpTo(RootEdits, 1),
        c \in SeqsUpTo(ProposalCreateds, 1),
        e \in SeqsUpTo(ExecutedProposals, 1)}

InitRootProposals ==
    /\ properties = HydratedProperties
    /\ properties_cache = HydratedProperties
    /\ values = {}
    /\ InitEditVars
    /\ InitResolverVars
    /\ InitPreprocessVars
    /\ InitSpaceVars
    /\ InitBlockVars
    /\ proposals \in StoredProposals
    /\ q_block = NoProposalBlock
    /\ q_number = 0
    /\ q_runs = 0
    /\ q_first = {}
    /\ q_outcome = None

NextRootProposals ==
    \/ /\ b_number < MaxRootBlocks
       /\ b_pc = "idle"
       /\ \E data \in RootProposalBlocks, f \in RootFailures :
             \E ef \in [1..Len(data.edits) -> {"none", "begin"}] :
                 root_handler_run(data, [f EXCEPT !.edits = ef])
    \/ BlockSteps

SpecRootProposals == InitRootProposals /\ [][NextRootProposals]_vars

\* C30: when root_handler::run has returned Ok for a block, every proposal of
\* created_proposals has a row of that block in the table of proposals, and
\* every row an event of executed_proposals names has status executed.
C30_RootHandlerIndexesProposals ==
    (b_pc = "returned" /\ b_result = "Ok") =>
        /\ \A i \in 1..Len(b_data.created_proposals) :
               \E r \in proposals :
                   /\ r.proposal_type = b_data.created_proposals[i].type
                   /\ r.created_at_block = b_number
                   /\ r.status \in {"created", "executed"}
        /\ \A r \in proposals :
               r.id \in ExecutedIds(b_data.executed_proposals) =>
                   r.status = "executed"

\* ------------------------------------------- edit handler, cache and storage
\* C31: in every state, after hydration and after every edit, each property
\* id the properties cache knows has in the cache the data_type the
\* properties table stores for it.
C31_CacheAgreesWithStorage ==
    \A p \in PropIds :
        properties_cache[p] # None => properties_cache[p] = properties[p]

MixedEditOps ==
    {CreateProperty("Q", dt) : dt \in OpDataTypes}
        \cup {UpdateEntity("E1", "Q", v) : v \in ValueStrings}

MixedEdits ==
    {PreprocessedEdit(ops, FALSE, "S1") : ops \in SeqsUpTo(MixedEditOps, MaxOps)}

NextMixedEdits ==
    \/ \E n \in 0..MaxEdits : edit_handler_call(n)
    \/ /\ cur_edit = NoEdit
       /\ run_state = "running"
       /\ edits_left > 0
       /\ \E pe \in MixedEdits, fail \in {"none", "commit"} : edit_handler_run(pe, fail)
    \/ edit_handler_next
    \/ edit_handler_return

SpecMixedEdits == InitEditErrors /\ [][NextMixedEdits]_vars

\* the rows of a values table on one triple
RowsIn(table, e, p, s) ==
    {r \in table : r.entity_id = e /\ r.property_id = p /\ r.space_id = s}

\* the index of the last SET on (e, p) whose string is valid for data type dt
LastValidSetFor(ops, e, p, dt) ==
    LET idx == {i \in OpsOn(ops, "UpdateEntity", e, p) :
                   HasTypedField(populate_value_fields_by_datatype(ops[i].value, dt))}
    IN  IF idx = {} THEN 0 ELSE CHOOSE i \in idx : \A j \in idx : j <= i

\* C33: when an edit commits, the SETs on a property the edit creates are
\* validated against the data_type the edit gives it, wherever the
\* CreateProperty op stands in the op list: the triple gets the row of the
\* last SET valid for that type, and keeps what it had if no SET is valid.
C33_ValuesSeePropertiesOfSameEdit ==
    [][edit_outcome' = "committed" =>
        LET ops == unwrap(cur_edit').ops
            s == cur_edit'.space_id
        IN  \A e \in EntityIds, p \in PropIds :
               LET dt == LastCreated(ops, p)
                   last == LastValidSetFor(ops, e, p, dt)
               IN  (dt # None /\ OpsOn(ops, "UpdateEntity", e, p) # {}) =>
                      IF last = 0
                      THEN RowsIn(values', e, p, s) = RowsIn(values, e, p, s)
                      ELSE RowsIn(values', e, p, s) =
                              {ValueRow(ValueOp("SET", e, p, s,
                                  populate_value_fields_by_datatype(ops[last].value, dt)))}]_vars

\* C33 witness: a committed edit SETs (E1, Q) to "1" and creates Q as Number
\* in a later op; the row holds the number
C33_Witness ==
    /\ edit_outcome = "committed"
    /\ unwrap(cur_edit).ops = <<UpdateEntity("E1", "Q", "1"), CreateProperty("Q", "Number")>>
    /\ RowsOn("E1", "Q", "S1") =
           {ValueRow(ValueOp("SET", "E1", "Q", "S1", [NoFields EXCEPT !.number = "1"]))}

\* ------------------------------- specification: the edits of a block in turn
\* Blocks whose edits create property Q or set a value on it; the indexer
\* starts with P stored and Q unknown, and no transaction fails.
SequenceEdits ==
    {PreprocessedEdit(<<op>>, FALSE, "S1") :
        op \in {CreateProperty("Q", "Number"), UpdateEntity("E1", "Q", "1"),
                UpdateEntity("E1", "Q", "x")}}

SequenceBlocks ==
    {KgData(<<>>, <<>>, <<>>, <<>>, <<>>, <<>>, <<>>, ed) :
        ed \in SeqsUpTo(SequenceEdits, MaxEdits)}

InitEditSequence ==
    /\ properties = [HydratedProperties EXCEPT !["Q"] = None]
    /\ properties_cache = properties
    /\ values = {}
    /\ InitEditVars
    /\ InitResolverVars
    /\ InitPreprocessVars
    /\ InitProposalVars
    /\ InitSpaceVars
    /\ InitBlockVars

NextEditSequence ==
    \/ /\ b_number < MaxRootBlocks
       /\ b_pc = "idle"
       /\ \E data \in SequenceBlocks :
             root_handler_run(data, Failures(FALSE, FALSE, FALSE,
                                             [i \in 1..Len(data.edits) |-> "none"]))
    \/ BlockSteps

SpecEditSequence == InitEditSequence /\ [][NextEditSequence]_vars

PublishedEvents == {Event(d, u) : d \in {"dao1", "dao2", "bad"}, u \in ContentUris}

PublishedGeoOutputs ==
    {GeoOutput(a, b) : a \in SeqsUpTo(PublishedEvents, MaxPublished),
                       b \in SeqsUpTo({Event("dao1", u) : u \in ContentUris}, 1)}

CachedRows(uri) ==
    {CachedEdit(CacheItem(uri, IF err THEN <<>> ELSE <<IpfsEdit(uri)>>, START_BLOCK,
                          derive_space_id("GEO", d), err)) :
        d \in {"dao1", "dao2"}, err \in BOOLEAN}

PublishedMaps(geo) ==
    LET uris == {all_content_uris(geo)[i] : i \in 1..Len(all_content_uris(geo))}
    IN  UNION {{m \in [S -> UNION {CachedRows(u) : u \in S}] : \A u \in S : m[u].cid = u} :
                   S \in SUBSET uris}

InitPublished ==
    /\ InitResolverVars
    /\ InitProposalVars
    /\ InitSpaceVars
    /\ InitBlockVars
    /\ properties = EmptyProperties
    /\ properties_cache = EmptyProperties
    /\ values = {}
    /\ InitEditVars
    /\ pp_geo \in PublishedGeoOutputs
    /\ cache_map \in PublishedMaps(pp_geo)
    /\ pp_pc = "mapping"
    /\ pp_handles = <<>>
    /\ request_counts = [u \in ContentUris |-> 0]
    /\ kg_data = NoKgData

NextPublished == preprocess_build_kg_data

SpecPublished == InitPublished /\ [][NextPublished]_vars

\* the indices of the events of edits_published that are not blocklisted and
\* whose URI is in the map
KeptPublished ==
    {i \in 1..Len(pp_geo.edits_published) :
        /\ pp_geo.edits_published[i].dao_address \notin Blocklist
        /\ pp_geo.edits_published[i].content_uri \in DOMAIN cache_map}

\* the k-th of them
KeptEvent(k) ==
    pp_geo.edits_published[
        CHOOSE i \in KeptPublished : Cardinality({j \in KeptPublished : j <= i}) = k]

\* C35: every edit of the KgData that the edit handler applies (it is not
\* errored) has the space derived from the DAO address of the EditPublished
\* event it stands for.
C35_EditInSpaceOfPublishingDao ==
    (pp_pc = "done" /\ Len(kg_data.edits) = Cardinality(KeptPublished)) =>
        \A k \in 1..Len(kg_data.edits) :
            ~kg_data.edits[k].is_errored =>
                kg_data.edits[k].space_id = derive_space_id("GEO", KeptEvent(k).dao_address)

\* C36: the edits of the KgData are, in the order of edits_published, the map
\* entries of the events that are not blocklisted and whose URI is in the
\* map, one entry per event; a URI that only PublishEditProposalCreated
\* events of the block carry is among the URIs read from the cache and has
\* no entry among the edits.
C36_EditsFollowPublishedEvents ==
    pp_pc = "done" =>
        /\ Len(kg_data.edits) = Cardinality(KeptPublished)
        /\ \A k \in 1..Cardinality(KeptPublished) :
               /\ k <= Len(kg_data.edits)
               /\ kg_data.edits[k] = cache_map[KeptEvent(k).content_uri]
               /\ kg_data.edits[k].cid = KeptEvent(k).content_uri
        /\ \A i \in 1..Len(pp_geo.edits) :
               LET u == pp_geo.edits[i].content_uri
               IN  (\A j \in 1..Len(pp_geo.edits_published) :
                        pp_geo.edits_published[j].content_uri # u) =>
                       /\ \E n \in 1..Len(all_content_uris(pp_geo)) :
                              all_content_uris(pp_geo)[n] = u
                       /\ \A k \in 1..Len(kg_data.edits) : kg_data.edits[k].cid # u

\* C36 witness: u1 is published twice by dao1 and u2 is only proposed; both
\* are in the map; the edits are the entry of u1 twice
C36_Witness ==
    /\ pp_pc = "done"
    /\ pp_geo = GeoOutput(<<Event("dao1", "u1"), Event("dao1", "u1")>>,
                          <<Event("dao1", "u2")>>)
    /\ DOMAIN cache_map = {"u1", "u2"}
    /\ kg_data.edits = <<cache_map["u1"], cache_map["u1"]>>

\* ------------------------------- specification: release of the permits
\* the steps of the spawned tasks; the runtime schedules every spawned task
\* and the calls of a task return
PermitTaskSteps ==
    \/ \E t \in tasks, db_ok \in BOOLEAN : Oldest(t) /\ process_edit_event_has(t, db_ok)
    \/ \E t \in tasks, fetched \in BOOLEAN : Oldest(t) /\ process_edit_event_fetch(t, fetched)
    \/ \E t \in tasks, db_ok \in BOOLEAN : Oldest(t) /\ process_edit_event_put(t, db_ok)

\* the first block of the stream is a burst; the service keeps running
NextPermitRelease ==
    \/ stream_start
    \/ /\ r_pc = "wait"
       /\ r_next = START_BLOCK
       /\ stream_deliver(BurstGeoOutput)
    \/ process_block_scoped_data
    \/ sink_persist_cursor
    \/ PermitTaskSteps

FairSpecPermits == InitResolver /\ [][NextPermitRelease]_vars /\ WF_vars(PermitTaskSteps)

\* C37: whenever no task is running all Permits permits are free, and a
\* state in which no permit is free is followed by one in which a permit is
\* free: every task gives its permit back on the path it ends on.
C37_PermitsReleased ==
    /\ [](tasks = {} => permits = Permits)
    /\ (permits = 0) ~> (permits > 0)

\* C37 witness: all Permits + 1 published events of the block have had
\* their task, which the last of them got only after a release, the tasks
\* have ended and every permit is free again
C37_Witness ==
    /\ r_pc = "process"
    /\ r_idx = Permits + 2
    /\ tasks = {}
    /\ permits = Permits

\* ------------------------------- specification: status of stored proposals
\* the tables an earlier block can have left: empty, or the row of one
\* created proposal, executed in that block or not
StoredProposalsWithStatus ==
    {proposal_handler_writes({}, c, e, 0, [i \in 1..Len(c) |-> "r1"]) :
        c \in SeqsUpTo(ProposalCreateds, 1), e \in SeqsUpTo(ExecutedProposals, 1)}

InitProposalStatus ==
    /\ InitResolverVars
    /\ InitPreprocessVars
    /\ InitSpaceVars
    /\ InitBlockVars
    /\ properties = EmptyProperties
    /\ properties_cache = EmptyProperties
    /\ values = {}
    /\ InitEditVars
    /\ proposals \in StoredProposalsWithStatus
    /\ q_block = NoProposalBlock
    /\ q_number = 0
    /\ q_runs = 0
    /\ q_first = {}
    /\ q_outcome = None

NextProposalStatus ==
    /\ q_number = 0
    /\ \E created \in SeqsUpTo(ProposalCreateds, MaxProposals),
          executed \in SeqsUpTo(ExecutedProposals, MaxProposals),
          fail \in ProposalFailPoints :
          \E fresh \in [1..Len(created) -> FreshUuids] :
              proposal_block(created, executed, fresh, fail)

SpecProposalStatus == InitProposalStatus /\ [][NextProposalStatus]_vars

\* C38: a proposal with status executed keeps it: no block leaves a row of
\* its id with another status, also not a block that carries its creation
\* event again; and a block that creates a proposal and executes it leaves
\* it executed.
C38_ExecutedStaysExecuted ==
    [][ /\ \A r \in proposals :
               r.status = "executed" =>
                   \A n \in proposals' : n.id = r.id => n.status = "executed"
        /\ (q_number' = q_number + 1 /\ q_outcome' = "Ok") =>
               \A n \in proposals' :
                   n.id \in ExecutedIds(q_block'.executed) => n.status = "executed"
      ]_vars

\* ------------------------------- specification: relation ops of an edit
MaxRelationOps == 3

\* Blocks of two edits: the first leaves the relations table empty or with
\* relation R1 in one of the spaces, the second carries up to MaxRelationOps
\* relation ops on R1 and R2. A transaction goes through, fails at
\* update_relations or fails at its commit.
SeedRelationEdits ==
    {PreprocessedEdit(<<>>, FALSE, "S1"),
     PreprocessedEdit(<<CreateRelation("R1", "E1", None, None)>>, FALSE, "S2"),
     PreprocessedEdit(<<CreateRelation("R2", "E2", "a", "true")>>, FALSE, "S1")}

RelationEditOps ==
    {CreateRelation("R1", "E1", None, None), CreateRelation("R1", "E1", "a", "true"),
     CreateRelation("R2", "E2", None, None),
     UpdateRelation("R1", None, "true"), UpdateRelation("R1", None, Unset),
     UpdateRelation("R1", Unset, "true"), UpdateRelation("R1", "a", Unset),
     DeleteRelation("R1"), DeleteRelation("R2")}

RelationEdits ==
    {PreprocessedEdit(ops, FALSE, s) :
        ops \in SeqsUpTo(RelationEditOps, MaxRelationOps), s \in SpaceIds}

NextRelationEdits ==
    \/ run_state = "idle" /\ edit_handler_call(2)
    \/ /\ edits_left = 2
       /\ \E pe \in SeedRelationEdits : edit_handler_run(pe, "none")
    \/ /\ edits_left = 1
       /\ \E pe \in RelationEdits, fail \in {"none", "update_relations", "commit"} :
              edit_handler_run(pe, fail)
    \/ edit_handler_next
    \/ edit_handler_return

SpecRelationEdits == InitEditErrors /\ [][NextRelationEdits]_vars

\* the indexes of the ops of one kind on relation r
RelationOpsOn(ops, kind, r) ==
    {i \in 1..Len(ops) : ops[i].op = kind /\ ops[i].id = r}

\* the last index of a set of indexes
LastOf(idx) == CHOOSE i \in idx : \A j \in idx : j <= i

\* a field of an op
FieldOf(o, position) == IF position THEN o.position ELSE o.verified

\* a field of a relation after the updates at the indexes us were applied
\* one after the other, in op order, to the row the op at index c created
FieldInOpOrder(ops, c, us, position) ==
    LET touching == {u \in us : FieldOf(ops[u], position) # None}
        last == FieldOf(ops[LastOf(touching)], position)
    IN  IF touching = {} THEN FieldOf(ops[c], position)
        ELSE IF last = Unset THEN None ELSE last

\* a field of a relation after the statements of the edit: cleared if an
\* update of the edit clears it, else the value of the last update that sets
\* it, else the value the op at index c created it with
FieldInStatementOrder(ops, c, us, position) ==
    LET setting == {u \in us : IsSet(FieldOf(ops[u], position))}
    IN  IF \E u \in us : FieldOf(ops[u], position) = Unset THEN None
        ELSE IF setting = {} THEN FieldOf(ops[c], position)
        ELSE FieldOf(ops[LastOf(setting)], position)

MaxValidated == 2

\* the typed fields a caller can have populated: every field is empty or
\* holds one value
PopulatedFields ==
    [string : {None, "x"}, number : {None, "1"}, boolean : {None, "1"},
     time : {None, "t"}, point : {None, "1,1"}]

\* SET values on a property the cache knows (P) and on one it does not (Q)
CallerValues ==
    {ValueOp("SET", "E1", p, "S1", f) : p \in PropIds, f \in PopulatedFields}

\* edit_handler::run, validation and insert of a list of created values
\* whose typed fields the caller populated
validate_and_insert(created) ==
    /\ run_state = "idle"
    /\ values_to_validate = <<>>
    /\ values_to_validate' = created
    /\ validated_created_values' = validate_created_values(created)
    /\ values' = insert_values(values, validate_created_values(created))
    /\ UNCHANGED <<properties, properties_cache, relations, cur_edit, edit_outcome,
                   edit_error, edit_begun, edit_issued, run_state, edits_left>>
    /\ UNCHANGED <<rvars, pvars, qvars, svars, bvars>>

NextValidation ==
    /\ values_to_validate = <<>>
    /\ \E created \in SeqsUpTo(CallerValues, MaxValidated) \ {<<>>} :
           validate_and_insert(created)

SpecValidation == InitEditErrors /\ [][NextValidation]_vars

====
